---- MODULE Spec2Model ----
(***************************************************************************)
(* Model of the HTTP/2 connection engine (Http2Connection), its frame      *)
(* parser (Http2Parser) and its streams (Http2Stream).                     *)
(*                                                                         *)
(* The receive path is modelled at the granularity of whole frames: one    *)
(* call of process_incoming_data appends the bytes of one complete frame   *)
(* to the parser's buffer_ and runs Http2Parser::parse over the buffer.    *)
(* A frame is a record of the fields its parse_*_payload function reads.   *)
(* The integrator callbacks on_send_bytes_, on_send_goaway_ and            *)
(* on_send_rst_stream_ are all installed; what they are called with is     *)
(* recorded in out.                                                        *)
(***************************************************************************)
EXTENDS Integers, Sequences, FiniteSets, TLC

(* ---------------------------- bounds ----------------------------------- *)
\* stream ids range over 0..MaxStreamId
MaxStreamId == 3
\* number of entry-point calls in one behaviour
MaxSteps == 3
\* number of calls on the codecs in one behaviour
MaxBlocks == 2
\* frames the parser buffer_ may hold (a frame that failed stays in it)
MaxBuffered == 2

(* ------------------------ program constants ---------------------------- *)
DEFAULT_INITIAL_WINDOW_SIZE == 65535
DEFAULT_MAX_FRAME_SIZE == 16384
MAX_ALLOWED_FRAME_SIZE == 16777215
MAX_ALLOWED_WINDOW_SIZE == 2147483647
\* the largest stream id (31 bits), the bound get_next_available_stream_id tests
MAX_STREAM_ID == 2147483647
DEFAULT_HEADER_TABLE_SIZE == 4096
\* HpackDecoder::DEFAULT_DYNAMIC_TABLE_SIZE and the encoder's
DEFAULT_DYNAMIC_TABLE_SIZE == 4096
\* smallest value of an int32_t
INT32_MIN == (-2147483647) - 1

SETTINGS_HEADER_TABLE_SIZE == 1
SETTINGS_ENABLE_PUSH == 2
SETTINGS_MAX_CONCURRENT_STREAMS == 3
SETTINGS_INITIAL_WINDOW_SIZE == 4
SETTINGS_MAX_FRAME_SIZE == 5
SETTINGS_MAX_HEADER_LIST_SIZE == 6

\* absent std::optional<stream_id_t>
NoStream == -1

StreamState == {"IDLE", "RESERVED_LOCAL", "RESERVED_REMOTE", "OPEN",
                "HALF_CLOSED_LOCAL", "HALF_CLOSED_REMOTE", "CLOSED"}

ConnectionSettings == [header_table_size |-> DEFAULT_HEADER_TABLE_SIZE,
                       enable_push |-> TRUE,
                       initial_window_size |-> DEFAULT_INITIAL_WINDOW_SIZE,
                       max_frame_size |-> DEFAULT_MAX_FRAME_SIZE]

(* ------------------------------ state ---------------------------------- *)
VARIABLES
    is_server_,                     \* role flag
    streams_,                       \* std::map<stream_id_t, Http2Stream>
    next_client_stream_id_,
    last_processed_stream_id_,
    going_away_,
    local_settings_,
    remote_settings_,
    local_connection_window_size_,  \* our receive window
    remote_connection_window_size_, \* our send window
    expected_continuation_stream_id_,
    header_block_buffer_,
    pending_header_initiator_frame_,
    buffer_,                        \* Http2Parser::buffer_, as whole frames
    current_state_,                 \* Http2Parser::current_state_
    out,                            \* what the last call passed to the send callbacks
    delivered,                      \* frames the last call passed to frame_cb_
    last,                           \* the last call: operation, argument, result
    hist,                           \* history of the behaviour (ghost)
    steps,
    encoder,                        \* an HpackEncoder
    decoder,                        \* an HpackDecoder
    hpack_last,                     \* the last call on the codecs
    hpack_hist,                     \* history of the codecs (ghost)
    parser_,                        \* an Http2Parser over octets, with its context
    wire,                           \* the octet stream written for parser_ (ghost)
    wire_last                       \* the last call on the serializer or parser_

connVars == <<is_server_, streams_, next_client_stream_id_, last_processed_stream_id_,
              going_away_, local_settings_, remote_settings_,
              local_connection_window_size_, remote_connection_window_size_,
              expected_continuation_stream_id_, header_block_buffer_,
              pending_header_initiator_frame_>>
hpackVars == <<encoder, decoder, hpack_last, hpack_hist>>
wireVars == <<parser_, wire, wire_last>>
vars == <<connVars, buffer_, current_state_, out, delivered, last, hist, steps, hpackVars,
          wireVars>>

(* --------------------------- Http2Stream ------------------------------- *)
Http2Stream(initial_local_window, initial_remote_window) ==
    [state_ |-> "IDLE",
     local_window_size_ |-> initial_local_window,
     remote_window_size_ |-> initial_remote_window]

transition_to_open(s) ==
    IF s.state_ \in {"IDLE", "RESERVED_LOCAL", "RESERVED_REMOTE"}
    THEN [s EXCEPT !.state_ = "OPEN"] ELSE s

transition_to_half_closed_local(s) ==
    IF s.state_ \in {"OPEN", "RESERVED_LOCAL"}
    THEN [s EXCEPT !.state_ = "HALF_CLOSED_LOCAL"]
    ELSE IF s.state_ = "HALF_CLOSED_REMOTE"
         THEN [s EXCEPT !.state_ = "CLOSED"] ELSE s

transition_to_half_closed_remote(s) ==
    IF s.state_ \in {"OPEN", "RESERVED_REMOTE"}
    THEN [s EXCEPT !.state_ = "HALF_CLOSED_REMOTE"]
    ELSE IF s.state_ = "HALF_CLOSED_LOCAL"
         THEN [s EXCEPT !.state_ = "CLOSED"] ELSE s

transition_to_closed(s) ==
    [state_ |-> "CLOSED", local_window_size_ |-> 0, remote_window_size_ |-> 0]

transition_to_reserved_local(s) ==
    IF s.state_ = "IDLE" THEN [s EXCEPT !.state_ = "RESERVED_LOCAL"] ELSE s

transition_to_reserved_remote(s) ==
    IF s.state_ = "IDLE" THEN [s EXCEPT !.state_ = "RESERVED_REMOTE"] ELSE s

\* static_cast<int64_t>(remote_window_size_) + increment > 2^31-1, where
\* increment is the uint32_t conversion of d: d itself when d >= 0 and
\* 2^32 + d when d < 0 (a negative int32_t delta passed by
\* apply_remote_setting).  For d < 0 the test remote + 2^32 + d > 2^31 - 1
\* is remote >= -2^31 - d; written so that no intermediate value leaves the
\* 32-bit range.
WindowWouldOverflow(remote, d) ==
    IF d >= 0
    THEN remote > 0 /\ d > MAX_ALLOWED_WINDOW_SIZE - remote
    ELSE remote >= INT32_MIN - d

\* Http2Stream::update_remote_window: the pair <<returned bool, stream>>
update_remote_window(s, d) ==
    IF d = 0 THEN <<TRUE, s>>
    ELSE IF WindowWouldOverflow(s.remote_window_size_, d) THEN <<FALSE, s>>
    ELSE <<TRUE, [s EXCEPT !.remote_window_size_ = @ + d]>>

record_data_sent(s, size) ==
    IF size = 0 THEN s ELSE [s EXCEPT !.remote_window_size_ = @ - size]

record_data_received(s, size) ==
    IF size = 0 THEN s ELSE [s EXCEPT !.local_window_size_ = @ - size]


(* ------------------- the connection during one call -------------------- *)
\* The fields of Http2Connection, together with what the running call has
\* passed to the callbacks so far (out, delivered), whether an exception is
\* propagating (threw), and ghost notes: viol lists the violations the code
\* path recognised, closed the stream ids that entered CLOSED, created the
\* stream ids added to streams_, segments the DATA frames send_data built,
\* each with the limits in force when it was built.
Conn ==
    [is_server_ |-> is_server_,
     streams_ |-> streams_,
     next_client_stream_id_ |-> next_client_stream_id_,
     last_processed_stream_id_ |-> last_processed_stream_id_,
     going_away_ |-> going_away_,
     local_settings_ |-> local_settings_,
     remote_settings_ |-> remote_settings_,
     local_connection_window_size_ |-> local_connection_window_size_,
     remote_connection_window_size_ |-> remote_connection_window_size_,
     expected_continuation_stream_id_ |-> expected_continuation_stream_id_,
     header_block_buffer_ |-> header_block_buffer_,
     pending_header_initiator_frame_ |-> pending_header_initiator_frame_,
     out |-> <<>>, delivered |-> <<>>, threw |-> FALSE,
     viol |-> <<>>, closed |-> {}, created |-> {}, segments |-> <<>>]

Output(kind, sid, code, n, es) ==
    [kind |-> kind, sid |-> sid, code |-> code, n |-> n, es |-> es]

\* on_send_goaway_(last_processed_stream_id_, code, message)
on_send_goaway_(c, code) ==
    [c EXCEPT !.out = Append(@, Output("GOAWAY", c.last_processed_stream_id_, code, 0, FALSE)),
              !.viol = Append(@, [scope |-> "connection", sid |-> 0, code |-> code])]

\* on_send_rst_stream_(stream_id, code)
on_send_rst_stream_(c, sid, code) ==
    [c EXCEPT !.out = Append(@, Output("RST_STREAM", sid, code, 0, FALSE)),
              !.viol = Append(@, [scope |-> "stream", sid |-> sid, code |-> code])]

\* on_send_bytes_(frame bytes)
on_send_bytes_(c, kind, sid, code, n, es) ==
    [c EXCEPT !.out = Append(@, Output(kind, sid, code, n, es))]

\* a branch the code marks "Protocol error" and leaves by a bare return
SilentReturn(c, code) ==
    [c EXCEPT !.viol = Append(@, [scope |-> "silent", sid |-> 0, code |-> code])]

Throw(c) == [c EXCEPT !.threw = TRUE]

SetStream(c, sid, s) ==
    [c EXCEPT !.streams_ = [@ EXCEPT ![sid] = s],
              !.closed = IF s.state_ = "CLOSED" THEN @ \cup {sid} ELSE @]

\* the id belongs to the parity the peer initiates streams with
PeerInitiated(server, sid) == IF server THEN sid % 2 # 0 ELSE sid % 2 = 0

get_or_create_stream(c, stream_id) ==
    IF stream_id = 0 THEN Throw(c)
    ELSE IF stream_id \in DOMAIN c.streams_ THEN c
    ELSE LET initial_local_win == c.remote_settings_.initial_window_size
             initial_remote_win == c.local_settings_.initial_window_size
         IN IF PeerInitiated(c.is_server_, stream_id)
            THEN IF stream_id <= c.last_processed_stream_id_
                 THEN Throw(c)
                 ELSE [c EXCEPT !.last_processed_stream_id_ = stream_id,
                                !.created = @ \cup {stream_id},
                                !.streams_ = @ @@ (stream_id :>
                                    Http2Stream(initial_local_win, initial_remote_win))]
            ELSE [c EXCEPT !.created = @ \cup {stream_id},
                           !.streams_ = @ @@ (stream_id :>
                                    Http2Stream(initial_local_win, initial_remote_win))]

\* frame.data.size() > static_cast<size_t>(window): a negative window
\* converts to a value above every frame size
ExceedsWindow(size, window) == IF window < 0 THEN FALSE ELSE size > window

handle_data_frame(c, frame) ==
    IF frame.sid = 0 THEN SilentReturn(c, "PROTOCOL_ERROR")
    ELSE LET c1 == get_or_create_stream(c, frame.sid) IN
    IF c1.threw THEN c1
    ELSE LET stream == c1.streams_[frame.sid] IN
    IF stream.state_ \notin {"OPEN", "HALF_CLOSED_REMOTE"}
    THEN SetStream(on_send_rst_stream_(c1, frame.sid, "STREAM_CLOSED"),
                   frame.sid, transition_to_closed(stream))
    ELSE IF \/ ExceedsWindow(frame.n, stream.local_window_size_)
            \/ ExceedsWindow(frame.n, c1.local_connection_window_size_)
    THEN on_send_goaway_(c1, "FLOW_CONTROL_ERROR")
    ELSE LET s2 == record_data_received(stream, frame.n)
             c2 == [SetStream(c1, frame.sid, s2) EXCEPT
                        !.local_connection_window_size_ = @ - frame.n]
         IN IF s2.local_window_size_ < 0
            THEN SetStream(on_send_rst_stream_(c2, frame.sid, "FLOW_CONTROL_ERROR"),
                           frame.sid, transition_to_closed(s2))
            ELSE IF c2.local_connection_window_size_ < 0
            THEN on_send_goaway_(c2, "FLOW_CONTROL_ERROR")
            ELSE IF frame.es
            THEN SetStream(c2, frame.sid, transition_to_half_closed_remote(s2))
            ELSE c2

handle_headers_frame(c, frame) ==
    IF frame.sid = 0 THEN SilentReturn(c, "PROTOCOL_ERROR")
    ELSE LET c1 == get_or_create_stream(c, frame.sid) IN
    IF c1.threw THEN c1
    ELSE LET stream == c1.streams_[frame.sid]
             is_trailers == stream.state_ = "HALF_CLOSED_REMOTE"
             invalid == stream.state_ \in {"HALF_CLOSED_LOCAL", "CLOSED"}
             s1 == CASE stream.state_ = "IDLE" -> transition_to_open(stream)
                     [] stream.state_ = "RESERVED_REMOTE" ->
                            transition_to_half_closed_local(stream)
                     [] stream.state_ = "RESERVED_LOCAL" ->
                            transition_to_open(transition_to_half_closed_remote(stream))
                     [] OTHER -> stream
         IN IF invalid
            THEN SetStream(on_send_rst_stream_(c1, frame.sid, "PROTOCOL_ERROR"),
                           frame.sid, transition_to_closed(stream))
            ELSE IF is_trailers /\ ~frame.es
            THEN SetStream(on_send_rst_stream_(c1, frame.sid, "PROTOCOL_ERROR"),
                           frame.sid, transition_to_closed(s1))
            ELSE IF frame.es
            THEN SetStream(c1, frame.sid, transition_to_half_closed_remote(s1))
            ELSE SetStream(c1, frame.sid, s1)

handle_priority_frame(c, frame) ==
    IF frame.sid = 0 THEN SilentReturn(c, "PROTOCOL_ERROR")
    ELSE get_or_create_stream(c, frame.sid)

handle_rst_stream_frame(c, frame) ==
    IF frame.sid = 0 THEN SilentReturn(c, "PROTOCOL_ERROR")
    ELSE IF frame.sid \notin DOMAIN c.streams_ THEN c
    ELSE IF c.streams_[frame.sid].state_ \in {"IDLE", "CLOSED"} THEN c
    ELSE SetStream(c, frame.sid, transition_to_closed(c.streams_[frame.sid]))


\* A SETTINGS value is a uint32_t, written [hi, lo] for hi * 2^31 + lo.
U32Above(v, k) == v.hi = 1 \/ v.lo > k
U32Below(v, k) == v.hi = 0 /\ v.lo < k

\* the loop over streams_ in apply_remote_setting: update_remote_window(delta)
\* on every stream that is neither IDLE nor CLOSED, its result dropped
AdjustStreamWindows(streams, delta) ==
    [id \in DOMAIN streams |->
        IF streams[id].state_ \notin {"IDLE", "CLOSED"}
        THEN update_remote_window(streams[id], delta)[2]
        ELSE streams[id]]

apply_remote_setting(c, setting) ==
    LET old_initial_window == c.remote_settings_.initial_window_size IN
    CASE setting.id = SETTINGS_HEADER_TABLE_SIZE ->
            [c EXCEPT !.remote_settings_.header_table_size = setting.lo]
      [] setting.id = SETTINGS_ENABLE_PUSH ->
            IF U32Above(setting, 1) THEN SilentReturn(c, "PROTOCOL_ERROR")
            ELSE [c EXCEPT !.remote_settings_.enable_push = (setting.lo = 1)]
      [] setting.id = SETTINGS_INITIAL_WINDOW_SIZE ->
            IF U32Above(setting, MAX_ALLOWED_WINDOW_SIZE)
            THEN SilentReturn(c, "FLOW_CONTROL_ERROR")
            ELSE LET delta == setting.lo - old_initial_window IN
                 [c EXCEPT !.remote_settings_.initial_window_size = setting.lo,
                           !.streams_ = AdjustStreamWindows(@, delta)]
      [] setting.id = SETTINGS_MAX_FRAME_SIZE ->
            IF U32Below(setting, DEFAULT_MAX_FRAME_SIZE)
               \/ U32Above(setting, MAX_ALLOWED_FRAME_SIZE)
            THEN SilentReturn(c, "PROTOCOL_ERROR")
            ELSE [c EXCEPT !.remote_settings_.max_frame_size = setting.lo]
      [] OTHER -> c

RECURSIVE ApplySettings(_, _)
ApplySettings(c, settings) ==
    IF settings = <<>> THEN c
    ELSE ApplySettings(apply_remote_setting(c, Head(settings)), Tail(settings))

\* the acknowledgement left out
send_settings_ack_action_Skipped(c) == c

send_settings_ack_action(c) == on_send_bytes_(c, "SETTINGS_ACK", 0, "NO_ERROR", 0, FALSE)

handle_settings_frame(c, frame) ==
    IF frame.sid # 0 THEN SilentReturn(c, "PROTOCOL_ERROR")
    ELSE IF frame.ack THEN c
    ELSE send_settings_ack_action(ApplySettings(c, frame.settings))

handle_push_promise_frame(c, frame) ==
    IF frame.sid = 0 THEN SilentReturn(c, "PROTOCOL_ERROR")
    ELSE IF ~c.is_server_ /\ ~c.local_settings_.enable_push
    THEN SilentReturn(c, "PROTOCOL_ERROR")
    ELSE IF c.is_server_ THEN SilentReturn(c, "PROTOCOL_ERROR")
    ELSE LET c1 == get_or_create_stream(c, frame.sid) IN
    IF c1.threw THEN c1
    ELSE IF c1.streams_[frame.sid].state_ \notin {"OPEN", "HALF_CLOSED_REMOTE"}
    THEN SilentReturn(c1, "PROTOCOL_ERROR")
    ELSE LET c2 == get_or_create_stream(c1, frame.promised) IN
    IF c2.threw THEN c2
    ELSE IF c2.streams_[frame.promised].state_ # "IDLE"
    THEN SilentReturn(c2, "PROTOCOL_ERROR")
    ELSE SetStream(c2, frame.promised,
                   transition_to_reserved_remote(c2.streams_[frame.promised]))

handle_ping_frame(c, frame) ==
    IF frame.sid # 0 THEN SilentReturn(c, "PROTOCOL_ERROR")
    ELSE IF frame.ack THEN c
    ELSE [c EXCEPT !.out = Append(@, Output("PING_ACK", 0, "NO_ERROR", 0, FALSE))]

handle_goaway_frame(c, frame) == [c EXCEPT !.going_away_ = TRUE]

handle_window_update_frame(c, frame) ==
    IF frame.n = 0
    THEN IF frame.sid = 0
         THEN on_send_goaway_(c, "PROTOCOL_ERROR")
         ELSE LET c1 == on_send_rst_stream_(c, frame.sid, "PROTOCOL_ERROR") IN
              IF frame.sid \in DOMAIN c1.streams_
              THEN SetStream(c1, frame.sid, transition_to_closed(c1.streams_[frame.sid]))
              ELSE c1
    ELSE IF frame.sid = 0
    THEN IF WindowWouldOverflow(c.remote_connection_window_size_, frame.n)
         THEN on_send_goaway_(c, "FLOW_CONTROL_ERROR")
         ELSE [c EXCEPT !.remote_connection_window_size_ = @ + frame.n]
    ELSE IF frame.sid \notin DOMAIN c.streams_ \/ c.streams_[frame.sid].state_ = "IDLE"
    THEN on_send_goaway_(c, "PROTOCOL_ERROR")
    ELSE IF c.streams_[frame.sid].state_ = "CLOSED" THEN c
    ELSE LET r == update_remote_window(c.streams_[frame.sid], frame.n) IN
         IF r[1] THEN SetStream(c, frame.sid, r[2])
         ELSE SetStream(on_send_rst_stream_(c, frame.sid, "FLOW_CONTROL_ERROR"),
                        frame.sid, transition_to_closed(c.streams_[frame.sid]))

handle_continuation_frame(c, frame) == c

\* std::erase_if(streams_, state == CLOSED)
EraseClosed(streams) ==
    [id \in {i \in DOMAIN streams : streams[i].state_ # "CLOSED"} |-> streams[id]]

\* the end of handle_parsed_frame: an exception leaves before the erase
EraseClosedStreams(c) ==
    IF c.threw THEN c
    ELSE [c EXCEPT !.streams_ = EraseClosed(@)]

\* the std::visit of handle_parsed_frame over the frame types
VisitFrame(c, any_frame) ==
    CASE any_frame.type = "DATA" -> handle_data_frame(c, any_frame)
      [] any_frame.type = "HEADERS" -> handle_headers_frame(c, any_frame)
      [] any_frame.type = "PRIORITY" -> handle_priority_frame(c, any_frame)
      [] any_frame.type = "RST_STREAM" -> handle_rst_stream_frame(c, any_frame)
      [] any_frame.type = "SETTINGS" -> handle_settings_frame(c, any_frame)
      [] any_frame.type = "PUSH_PROMISE" -> handle_push_promise_frame(c, any_frame)
      [] any_frame.type = "PING" -> handle_ping_frame(c, any_frame)
      [] any_frame.type = "GOAWAY" -> handle_goaway_frame(c, any_frame)
      [] any_frame.type = "WINDOW_UPDATE" -> handle_window_update_frame(c, any_frame)
      [] any_frame.type = "CONTINUATION" -> handle_continuation_frame(c, any_frame)
      [] OTHER -> c

\* frame_cb_ (recorded in delivered), the dispatch, the erase
handle_parsed_frame(c, any_frame) ==
    EraseClosedStreams(
        VisitFrame([c EXCEPT !.delivered = Append(@, any_frame)], any_frame))


(* ------------------------------ frames --------------------------------- *)
\* A frame on the wire: FrameHeader (length, type, flags, stream_id) and the
\* payload fields.  n is the DATA size or the WINDOW_UPDATE increment, frag
\* the header-block fragment (a sequence of octets), headers the decoded list
\* the parser attaches.
Frame(type, sid, es, eh, ack, n, frag, promised, settings, length) ==
    [type |-> type, sid |-> sid, es |-> es, eh |-> eh, ack |-> ack, n |-> n,
     frag |-> frag, promised |-> promised, settings |-> settings,
     length |-> length, headers |-> <<>>, padded |-> FALSE, pad_length |-> 0]

NoFrame == Frame("NONE", 0, FALSE, FALSE, FALSE, 0, <<>>, 0, <<>>, 0)

DataFrame(sid, n, es) == Frame("DATA", sid, es, FALSE, FALSE, n, <<>>, 0, <<>>, n)
\* a DATA frame with the PADDED flag: the payload is the Pad Length octet,
\* n octets of data and pad octets of padding
PaddedDataFrame(sid, n, pad, es) ==
    [DataFrame(sid, n, es) EXCEPT !.padded = TRUE, !.pad_length = pad,
                                  !.length = 1 + n + pad]
HeadersFrame(sid, frag, es, eh) ==
    Frame("HEADERS", sid, es, eh, FALSE, 0, frag, 0, <<>>, Len(frag))
PriorityFrame(sid) == Frame("PRIORITY", sid, FALSE, FALSE, FALSE, 0, <<>>, 0, <<>>, 5)
RstStreamFrame(sid) == Frame("RST_STREAM", sid, FALSE, FALSE, FALSE, 0, <<>>, 0, <<>>, 4)
SettingsFrame(ack, settings) ==
    Frame("SETTINGS", 0, FALSE, FALSE, ack, 0, <<>>, 0, settings, 6 * Len(settings))
PushPromiseFrame(sid, promised, frag, eh) ==
    Frame("PUSH_PROMISE", sid, FALSE, eh, FALSE, 0, frag, promised, <<>>, 4 + Len(frag))
PingFrame(ack) == Frame("PING", 0, FALSE, FALSE, ack, 0, <<>>, 0, <<>>, 8)
GoAwayFrame == Frame("GOAWAY", 0, FALSE, FALSE, FALSE, 0, <<>>, 0, <<>>, 8)
WindowUpdateFrame(sid, inc) ==
    Frame("WINDOW_UPDATE", sid, FALSE, FALSE, FALSE, inc, <<>>, 0, <<>>, 4)
ContinuationFrame(sid, frag, eh) ==
    Frame("CONTINUATION", sid, FALSE, eh, FALSE, 0, frag, 0, <<>>, Len(frag))
UnknownFrame(sid) == Frame("UNKNOWN", sid, FALSE, FALSE, FALSE, 0, <<>>, 0, <<>>, 0)

(* --------------------------- HPACK decoding ---------------------------- *)
\* HpackDecoder::decode on a block of one-octet Indexed Header Field
\* representations (1xxxxxxx): the index is the low seven bits; index 0 and
\* an index beyond the 61 static entries (the dynamic table is empty) are
\* errors.  The decoded list is the sequence of static-table indices.
STATIC_TABLE_SIZE == 61

HpackIndex(octet) == octet % 128

HpackDecodeFails(data) ==
    \E i \in 1..Len(data) :
        \/ data[i] < 128
        \/ HpackIndex(data[i]) = 0
        \/ HpackIndex(data[i]) > STATIC_TABLE_SIZE

HpackDecode(data) == [i \in 1..Len(data) |-> HpackIndex(data[i])]

(* ---------------------------- Http2Parser ------------------------------ *)
is_expecting_continuation(c) == c.expected_continuation_stream_id_ # NoStream

get_expected_continuation_stream_id(c) ==
    IF c.expected_continuation_stream_id_ = NoStream THEN 0
    ELSE c.expected_continuation_stream_id_

expect_continuation_for_stream(c, stream_id, initiator_frame) ==
    [c EXCEPT !.expected_continuation_stream_id_ = stream_id,
              !.pending_header_initiator_frame_ = initiator_frame]

finish_continuation(c) ==
    [c EXCEPT !.expected_continuation_stream_id_ = NoStream,
              !.pending_header_initiator_frame_ = NoFrame,
              !.header_block_buffer_ = <<>>]

populate_pending_headers(c, headers) ==
    IF c.pending_header_initiator_frame_ # NoFrame
    THEN [c EXCEPT !.pending_header_initiator_frame_.headers = headers]
    ELSE c

\* every parse_*_payload: the triple <<frame, ParserError, connection>>
\* frame.data is the payload without the Pad Length octet and the padding
parse_data_payload(c, header) ==
    LET current_offset == IF header.padded THEN 1 ELSE 0
        data_length == header.length - current_offset - header.pad_length
    IN IF header.sid = 0 THEN <<header, "INVALID_STREAM_ID", c>>
       ELSE IF header.padded /\ header.length = 0
       THEN <<header, "INVALID_PADDING", c>>
       ELSE IF header.padded /\ header.pad_length > header.length - current_offset
       THEN <<header, "INVALID_PADDING", c>>
       ELSE <<[header EXCEPT !.n = data_length], "OK", c>>

parse_headers_payload(c, header) ==
    IF header.sid = 0 THEN <<header, "INVALID_STREAM_ID", c>>
    ELSE LET c1 == IF \/ ~is_expecting_continuation(c)
                      \/ header.sid # get_expected_continuation_stream_id(c)
                   THEN [c EXCEPT !.header_block_buffer_ = <<>>] ELSE c
             c2 == [c1 EXCEPT !.header_block_buffer_ = @ \o header.frag]
         IN IF header.eh
            THEN IF HpackDecodeFails(c2.header_block_buffer_)
                 THEN <<header, "HPACK_DECOMPRESSION_FAILED", finish_continuation(c2)>>
                 ELSE <<[header EXCEPT !.headers = HpackDecode(c2.header_block_buffer_)],
                        "OK", finish_continuation(c2)>>
            ELSE <<header, "OK", expect_continuation_for_stream(c2, header.sid, header)>>

parse_priority_payload(c, header) ==
    IF header.length # 5 THEN <<header, "INVALID_FRAME_SIZE", c>>
    ELSE <<header, "OK", c>>

parse_rst_stream_payload(c, header) ==
    IF header.length # 4 THEN <<header, "INVALID_FRAME_SIZE", c>>
    ELSE <<header, "OK", c>>

parse_settings_payload(c, header) ==
    IF header.sid # 0 THEN <<header, "INVALID_STREAM_ID", c>>
    ELSE IF header.ack
    THEN IF header.length # 0 THEN <<header, "INVALID_FRAME_SIZE", c>>
         ELSE <<header, "OK", c>>
    ELSE IF header.length % 6 # 0 THEN <<header, "INVALID_FRAME_SIZE", c>>
    ELSE <<header, "OK", c>>

parse_push_promise_payload(c, header) ==
    IF header.length < 4 THEN <<header, "INVALID_FRAME_SIZE", c>>
    ELSE <<header, "OK", c>>

parse_ping_payload(c, header) ==
    IF header.length # 8 THEN <<header, "INVALID_FRAME_SIZE", c>>
    ELSE <<header, "OK", c>>

parse_goaway_payload(c, header) ==
    IF header.length < 8 THEN <<header, "INVALID_FRAME_SIZE", c>>
    ELSE <<header, "OK", c>>

parse_window_update_payload(c, header) ==
    IF header.length # 4 THEN <<header, "INVALID_FRAME_SIZE", c>>
    ELSE IF header.n = 0 THEN <<header, "INVALID_WINDOW_UPDATE_INCREMENT", c>>
    ELSE <<header, "OK", c>>

parse_continuation_payload(c, header) ==
    IF ~is_expecting_continuation(c) THEN <<header, "PROTOCOL_ERROR", c>>
    ELSE IF header.sid # get_expected_continuation_stream_id(c)
    THEN <<header, "CONTINUATION_WRONG_STREAM", c>>
    ELSE IF header.sid = 0 THEN <<header, "INVALID_STREAM_ID", c>>
    ELSE LET c1 == [c EXCEPT !.header_block_buffer_ = @ \o header.frag] IN
         IF header.eh
         THEN IF HpackDecodeFails(c1.header_block_buffer_)
              THEN <<header, "HPACK_DECOMPRESSION_FAILED", c1>>
              ELSE <<header, "OK",
                     finish_continuation(
                         populate_pending_headers(c1, HpackDecode(c1.header_block_buffer_)))>>
         ELSE <<header, "OK", c1>>

\* the frame type dispatch of Http2Parser::parse: the payload parser, then
\* frame_callback_ (handle_parsed_frame) when the payload parsed; an unknown
\* type is passed to the callback and reported as INVALID_FRAME_TYPE
ParsePayload(c, header) ==
    CASE header.type = "DATA" -> parse_data_payload(c, header)
      [] header.type = "HEADERS" -> parse_headers_payload(c, header)
      [] header.type = "PRIORITY" -> parse_priority_payload(c, header)
      [] header.type = "RST_STREAM" -> parse_rst_stream_payload(c, header)
      [] header.type = "SETTINGS" -> parse_settings_payload(c, header)
      [] header.type = "PUSH_PROMISE" -> parse_push_promise_payload(c, header)
      [] header.type = "PING" -> parse_ping_payload(c, header)
      [] header.type = "GOAWAY" -> parse_goaway_payload(c, header)
      [] header.type = "WINDOW_UPDATE" -> parse_window_update_payload(c, header)
      [] header.type = "CONTINUATION" -> parse_continuation_payload(c, header)
      [] OTHER -> <<header, "INVALID_FRAME_TYPE", c>>

\* r is the payload parser's result <<frame, error, connection>>
InvokeFrameCallback(r, header) ==
    IF r[2] = "OK" \/ header.type = "UNKNOWN"
    THEN <<r[2], handle_parsed_frame(r[3], r[1])>>
    ELSE <<r[2], r[3]>>

DispatchFrame(c, header) == InvokeFrameCallback(ParsePayload(c, header), header)

\* Http2Parser::parse over buffer_ (the new bytes already appended): the
\* while loop, one iteration per complete frame at the head of the buffer.
\* The result is what the call leaves behind and its ParserError;
\* "EXCEPTION" stands for an exception leaving the frame callback.
RECURSIVE parse(_, _, _)
\* the size gate left out
FrameSizeLimitExceeded_Never(c, header) == FALSE

\* pending_frame_header_.length > get_remote_settings().max_frame_size
FrameSizeLimitExceeded(c, header) ==
    header.length > c.remote_settings_.max_frame_size

\* the loop body after the dispatch, d its result <<error, connection>>: an
\* error or an exception returns with the frame still in buffer_, success
\* erases the frame and loops
ParseLoopTail(d, buffer) ==
    IF d[2].threw
    THEN [c |-> d[2], buffer_ |-> buffer, current_state_ |-> "READING_FRAME_PAYLOAD",
          error |-> "EXCEPTION"]
    ELSE IF d[1] # "OK"
    THEN [c |-> d[2], buffer_ |-> buffer, current_state_ |-> "READING_FRAME_PAYLOAD",
          error |-> d[1]]
    ELSE parse(d[2], Tail(buffer), "READING_FRAME_HEADER")

parse(c, buffer, state) ==
    IF buffer = <<>>
    THEN [c |-> c, buffer_ |-> buffer, current_state_ |-> state, error |-> "OK"]
    ELSE IF /\ state = "READING_FRAME_HEADER"
            /\ FrameSizeLimitExceeded(c, Head(buffer))
    THEN [c |-> c, buffer_ |-> buffer, current_state_ |-> state,
          error |-> "FRAME_SIZE_LIMIT_EXCEEDED"]
    ELSE ParseLoopTail(DispatchFrame(c, Head(buffer)), buffer)

\* the switch of process_incoming_data from ParserError to ErrorCode
ParserErrorCode(error) ==
    CASE error = "FRAME_SIZE_LIMIT_EXCEEDED" -> "FRAME_SIZE_ERROR"
      [] error = "HPACK_DECOMPRESSION_FAILED" -> "COMPRESSION_ERROR"
      [] OTHER -> "PROTOCOL_ERROR"

\* process_incoming_data(data), data the bytes of the frames in the sequence
ReportParserError(r) ==
    IF r.error \in {"OK", "EXCEPTION"} THEN r
    ELSE [r EXCEPT !.c = on_send_goaway_(r.c, ParserErrorCode(r.error))]

process_incoming_data(c, buffer, state, data) ==
    ReportParserError(parse(c, buffer \o data, state))


(* ----------------------------- send path ------------------------------- *)
\* std::min left out: the first operand is taken as it is
MinUnclamped(a, b) == a

Min(a, b) == IF a < b THEN a ELSE b
Max(a, b) == IF a > b THEN a ELSE b

\* END_STREAM put on every frame of a call with end_stream
EndStreamFlagAlways(end_stream, all_data_sent) == end_stream

\* df.header.flags = (end_stream && all_data_sent) ? END_STREAM_FLAG : 0
EndStreamFlag(end_stream, all_data_sent) == end_stream /\ all_data_sent

\* ghost: the DataFrame df that send_data is about to pass to on_send_bytes_,
\* with the windows and the frame-size limit as they are at that moment and
\* the offset in the caller's data that the frame reaches
RecordSegment(c, stream_id, size, end_stream, end_offset) ==
    [c EXCEPT !.segments = Append(@,
        [sid |-> stream_id, n |-> size, es |-> end_stream, end_offset |-> end_offset,
         stream_window |-> c.streams_[stream_id].remote_window_size_,
         conn_window |-> c.remote_connection_window_size_,
         max_frame_size |-> c.remote_settings_.max_frame_size])]

\* the while loop of send_data from data_offset on; size is data.size().
\* The result is the connection and the returned bool.
RECURSIVE send_data_loop(_, _, _, _, _)
send_data_loop(c, stream_id, size, end_stream, data_offset) ==
    LET stream == c.streams_[stream_id]
        empty_end == size = 0 /\ data_offset = 0 /\ end_stream
        available_stream_window == Max(0, stream.remote_window_size_)
        available_conn_window == Max(0, c.remote_connection_window_size_)
        blocked == available_stream_window = 0 \/ available_conn_window = 0
        remaining_data_size == size - data_offset
        current_chunk_size ==
            IF empty_end THEN 0
            ELSE Min(Min(Min(remaining_data_size, c.remote_settings_.max_frame_size),
                         available_stream_window), available_conn_window)
        new_offset == data_offset + current_chunk_size
        all_data_sent == new_offset = size
        c1 == on_send_bytes_(
                  RecordSegment(c, stream_id, current_chunk_size,
                                EndStreamFlag(end_stream, all_data_sent), new_offset),
                  "DATA", stream_id, "NO_ERROR", current_chunk_size,
                  EndStreamFlag(end_stream, all_data_sent))
        s1 == record_data_sent(stream, current_chunk_size)
        s2 == IF end_stream /\ all_data_sent THEN transition_to_half_closed_local(s1) ELSE s1
        c2 == [SetStream(c1, stream_id, s2) EXCEPT
                   !.remote_connection_window_size_ = @ - current_chunk_size]
    IN IF ~(data_offset < size \/ empty_end) THEN <<c, TRUE>>
       ELSE IF blocked /\ ~empty_end /\ data_offset < size THEN <<c, data_offset > 0>>
       ELSE IF blocked /\ ~empty_end THEN <<c, TRUE>>
       ELSE IF current_chunk_size = 0 /\ remaining_data_size > 0 THEN <<c, data_offset > 0>>
       ELSE IF empty_end \/ all_data_sent THEN <<c2, TRUE>>
       ELSE send_data_loop(c2, stream_id, size, end_stream, new_offset)

send_data(c, stream_id, size, end_stream) ==
    IF stream_id = 0 THEN <<c, FALSE>>
    ELSE IF stream_id \notin DOMAIN c.streams_ THEN <<c, FALSE>>
    ELSE IF c.streams_[stream_id].state_ \notin {"OPEN", "HALF_CLOSED_REMOTE"}
    THEN <<c, FALSE>>
    ELSE send_data_loop(c, stream_id, size, end_stream, 0)

\* send_headers with a header list that fits one HEADERS frame
send_headers(c, stream_id, end_stream) ==
    IF ~c.is_server_ /\ (stream_id % 2 = 0 \/ stream_id < c.next_client_stream_id_)
    THEN <<c, FALSE>>
    ELSE LET c0 == IF ~c.is_server_
                   THEN [c EXCEPT !.next_client_stream_id_ = stream_id + 2] ELSE c
             c1 == get_or_create_stream(c0, stream_id)
         IN IF c1.threw THEN <<c1, FALSE>>
            ELSE IF c1.streams_[stream_id].state_ = "CLOSED" THEN <<c1, FALSE>>
            ELSE LET stream == c1.streams_[stream_id]
                     c2 == on_send_bytes_(c1, "HEADERS", stream_id, "NO_ERROR", 0, end_stream)
                     s1 == IF stream.state_ = "IDLE" THEN transition_to_open(stream)
                           ELSE IF c1.is_server_ /\ stream.state_ = "RESERVED_REMOTE"
                           THEN transition_to_half_closed_local(stream)
                           ELSE stream
                     s2 == IF end_stream THEN transition_to_half_closed_local(s1) ELSE s1
                 IN <<SetStream(c2, stream_id, s2), TRUE>>

\* send_push_promise with a header list that fits one PUSH_PROMISE frame
send_push_promise(c, associated_stream_id, promised_stream_id) ==
    IF ~c.is_server_ THEN <<c, FALSE>>
    ELSE IF \/ associated_stream_id = 0 \/ promised_stream_id = 0
            \/ promised_stream_id % 2 # 0
    THEN <<c, FALSE>>
    ELSE IF associated_stream_id \notin DOMAIN c.streams_ THEN <<c, FALSE>>
    ELSE IF c.streams_[associated_stream_id].state_ \notin {"OPEN", "HALF_CLOSED_LOCAL"}
    THEN <<c, FALSE>>
    ELSE IF promised_stream_id \in DOMAIN c.streams_ THEN <<c, FALSE>>
    ELSE LET c1 == get_or_create_stream(c, promised_stream_id)
             c2 == SetStream(c1, promised_stream_id,
                             transition_to_reserved_local(c1.streams_[promised_stream_id]))
         IN <<on_send_bytes_(c2, "PUSH_PROMISE", associated_stream_id, "NO_ERROR",
                             promised_stream_id, FALSE), TRUE>>

send_rst_stream_frame_action(c, stream_id, error_code) ==
    IF stream_id = 0 THEN <<c, FALSE>>
    ELSE IF stream_id \in DOMAIN c.streams_ /\ c.streams_[stream_id].state_ = "CLOSED"
    THEN <<c, TRUE>>
    ELSE LET c1 == on_send_bytes_(c, "RST_STREAM_FRAME", stream_id, error_code, 0, FALSE) IN
         IF stream_id \in DOMAIN c1.streams_
         THEN <<SetStream(c1, stream_id, transition_to_closed(c1.streams_[stream_id])), TRUE>>
         ELSE <<c1, TRUE>>

\* local_connection_window_size_ += increment: the int32_t is converted to
\* uint32_t, the sum is taken modulo 2^32 and converted back, so a sum above
\* 2^31-1 comes back lowered by 2^32.  Written so that no intermediate value
\* leaves the 32-bit range.
WrapAdd32(window, increment) ==
    IF window > 0 /\ increment > MAX_ALLOWED_WINDOW_SIZE - window
    THEN ((window + INT32_MIN) + increment) + INT32_MIN
    ELSE window + increment

\* the result is the connection and the returned bool
send_window_update_action(c, stream_id, increment) ==
    IF increment = 0 \/ increment > MAX_ALLOWED_WINDOW_SIZE THEN <<c, FALSE>>
    ELSE LET c1 == on_send_bytes_(c, "WINDOW_UPDATE", stream_id, "NO_ERROR",
                                  increment, FALSE) IN
         IF stream_id = 0
         THEN <<[c1 EXCEPT !.local_connection_window_size_ = WrapAdd32(@, increment)],
                TRUE>>
         ELSE <<c1, stream_id \in DOMAIN c1.streams_>>


\* the result is the connection and the returned id (0: none available)
get_next_available_stream_id(c) ==
    IF c.is_server_ THEN <<c, 0>>
    ELSE IF c.next_client_stream_id_ > MAX_STREAM_ID - 2 THEN <<c, 0>>
    ELSE <<[c EXCEPT !.next_client_stream_id_ = @ + 2], c.next_client_stream_id_>>

(* ------------------------------- HPACK --------------------------------- *)
\* Hpack::STATIC_TABLE; a string is the sequence of its octets
STATIC_TABLE == <<
    [name |-> <<58, 97, 117, 116, 104, 111, 114, 105, 116, 121>>,
     value |-> <<>>],  \* 1 :authority: 
    [name |-> <<58, 109, 101, 116, 104, 111, 100>>,
     value |-> <<71, 69, 84>>],  \* 2 :method: GET
    [name |-> <<58, 109, 101, 116, 104, 111, 100>>,
     value |-> <<80, 79, 83, 84>>],  \* 3 :method: POST
    [name |-> <<58, 112, 97, 116, 104>>,
     value |-> <<47>>],  \* 4 :path: /
    [name |-> <<58, 112, 97, 116, 104>>,
     value |-> <<47, 105, 110, 100, 101, 120, 46, 104, 116, 109, 108>>],  \* 5 :path: /index.html
    [name |-> <<58, 115, 99, 104, 101, 109, 101>>,
     value |-> <<104, 116, 116, 112>>],  \* 6 :scheme: http
    [name |-> <<58, 115, 99, 104, 101, 109, 101>>,
     value |-> <<104, 116, 116, 112, 115>>],  \* 7 :scheme: https
    [name |-> <<58, 115, 116, 97, 116, 117, 115>>,
     value |-> <<50, 48, 48>>],  \* 8 :status: 200
    [name |-> <<58, 115, 116, 97, 116, 117, 115>>,
     value |-> <<50, 48, 52>>],  \* 9 :status: 204
    [name |-> <<58, 115, 116, 97, 116, 117, 115>>,
     value |-> <<50, 48, 54>>],  \* 10 :status: 206
    [name |-> <<58, 115, 116, 97, 116, 117, 115>>,
     value |-> <<51, 48, 52>>],  \* 11 :status: 304
    [name |-> <<58, 115, 116, 97, 116, 117, 115>>,
     value |-> <<52, 48, 48>>],  \* 12 :status: 400
    [name |-> <<58, 115, 116, 97, 116, 117, 115>>,
     value |-> <<52, 48, 52>>],  \* 13 :status: 404
    [name |-> <<58, 115, 116, 97, 116, 117, 115>>,
     value |-> <<53, 48, 48>>],  \* 14 :status: 500
    [name |-> <<97, 99, 99, 101, 112, 116, 45, 99, 104, 97, 114, 115, 101, 116>>,
     value |-> <<>>],  \* 15 accept-charset: 
    [name |-> <<97, 99, 99, 101, 112, 116, 45, 101, 110, 99, 111, 100, 105, 110, 103>>,
     value |-> <<103, 122, 105, 112, 44, 32, 100, 101, 102, 108, 97, 116, 101>>],  \* 16 accept-encoding: gzip, deflate
    [name |-> <<97, 99, 99, 101, 112, 116, 45, 108, 97, 110, 103, 117, 97, 103, 101>>,
     value |-> <<>>],  \* 17 accept-language: 
    [name |-> <<97, 99, 99, 101, 112, 116, 45, 114, 97, 110, 103, 101, 115>>,
     value |-> <<>>],  \* 18 accept-ranges: 
    [name |-> <<97, 99, 99, 101, 112, 116>>,
     value |-> <<>>],  \* 19 accept: 
    [name |-> <<97, 99, 99, 101, 115, 115, 45, 99, 111, 110, 116, 114, 111, 108, 45, 97, 108, 108, 111, 119, 45, 111, 114, 105, 103, 105, 110>>,
     value |-> <<>>],  \* 20 access-control-allow-origin: 
    [name |-> <<97, 103, 101>>,
     value |-> <<>>],  \* 21 age: 
    [name |-> <<97, 108, 108, 111, 119>>,
     value |-> <<>>],  \* 22 allow: 
    [name |-> <<97, 117, 116, 104, 111, 114, 105, 122, 97, 116, 105, 111, 110>>,
     value |-> <<>>],  \* 23 authorization: 
    [name |-> <<99, 97, 99, 104, 101, 45, 99, 111, 110, 116, 114, 111, 108>>,
     value |-> <<>>],  \* 24 cache-control: 
    [name |-> <<99, 111, 110, 116, 101, 110, 116, 45, 100, 105, 115, 112, 111, 115, 105, 116, 105, 111, 110>>,
     value |-> <<>>],  \* 25 content-disposition: 
    [name |-> <<99, 111, 110, 116, 101, 110, 116, 45, 101, 110, 99, 111, 100, 105, 110, 103>>,
     value |-> <<>>],  \* 26 content-encoding: 
    [name |-> <<99, 111, 110, 116, 101, 110, 116, 45, 108, 97, 110, 103, 117, 97, 103, 101>>,
     value |-> <<>>],  \* 27 content-language: 
    [name |-> <<99, 111, 110, 116, 101, 110, 116, 45, 108, 101, 110, 103, 116, 104>>,
     value |-> <<>>],  \* 28 content-length: 
    [name |-> <<99, 111, 110, 116, 101, 110, 116, 45, 108, 111, 99, 97, 116, 105, 111, 110>>,
     value |-> <<>>],  \* 29 content-location: 
    [name |-> <<99, 111, 110, 116, 101, 110, 116, 45, 114, 97, 110, 103, 101>>,
     value |-> <<>>],  \* 30 content-range: 
    [name |-> <<99, 111, 110, 116, 101, 110, 116, 45, 116, 121, 112, 101>>,
     value |-> <<>>],  \* 31 content-type: 
    [name |-> <<99, 111, 111, 107, 105, 101>>,
     value |-> <<>>],  \* 32 cookie: 
    [name |-> <<100, 97, 116, 101>>,
     value |-> <<>>],  \* 33 date: 
    [name |-> <<101, 116, 97, 103>>,
     value |-> <<>>],  \* 34 etag: 
    [name |-> <<101, 120, 112, 101, 99, 116>>,
     value |-> <<>>],  \* 35 expect: 
    [name |-> <<101, 120, 112, 105, 114, 101, 115>>,
     value |-> <<>>],  \* 36 expires: 
    [name |-> <<102, 114, 111, 109>>,
     value |-> <<>>],  \* 37 from: 
    [name |-> <<104, 111, 115, 116>>,
     value |-> <<>>],  \* 38 host: 
    [name |-> <<105, 102, 45, 109, 97, 116, 99, 104>>,
     value |-> <<>>],  \* 39 if-match: 
    [name |-> <<105, 102, 45, 109, 111, 100, 105, 102, 105, 101, 100, 45, 115, 105, 110, 99, 101>>,
     value |-> <<>>],  \* 40 if-modified-since: 
    [name |-> <<105, 102, 45, 110, 111, 110, 101, 45, 109, 97, 116, 99, 104>>,
     value |-> <<>>],  \* 41 if-none-match: 
    [name |-> <<105, 102, 45, 114, 97, 110, 103, 101>>,
     value |-> <<>>],  \* 42 if-range: 
    [name |-> <<105, 102, 45, 117, 110, 109, 111, 100, 105, 102, 105, 101, 100, 45, 115, 105, 110, 99, 101>>,
     value |-> <<>>],  \* 43 if-unmodified-since: 
    [name |-> <<108, 97, 115, 116, 45, 109, 111, 100, 105, 102, 105, 101, 100>>,
     value |-> <<>>],  \* 44 last-modified: 
    [name |-> <<108, 105, 110, 107>>,
     value |-> <<>>],  \* 45 link: 
    [name |-> <<108, 111, 99, 97, 116, 105, 111, 110>>,
     value |-> <<>>],  \* 46 location: 
    [name |-> <<109, 97, 120, 45, 102, 111, 114, 119, 97, 114, 100, 115>>,
     value |-> <<>>],  \* 47 max-forwards: 
    [name |-> <<112, 114, 111, 120, 121, 45, 97, 117, 116, 104, 101, 110, 116, 105, 99, 97, 116, 101>>,
     value |-> <<>>],  \* 48 proxy-authenticate: 
    [name |-> <<112, 114, 111, 120, 121, 45, 97, 117, 116, 104, 111, 114, 105, 122, 97, 116, 105, 111, 110>>,
     value |-> <<>>],  \* 49 proxy-authorization: 
    [name |-> <<114, 97, 110, 103, 101>>,
     value |-> <<>>],  \* 50 range: 
    [name |-> <<114, 101, 102, 101, 114, 101, 114>>,
     value |-> <<>>],  \* 51 referer: 
    [name |-> <<114, 101, 102, 114, 101, 115, 104>>,
     value |-> <<>>],  \* 52 refresh: 
    [name |-> <<114, 101, 116, 114, 121, 45, 97, 102, 116, 101, 114>>,
     value |-> <<>>],  \* 53 retry-after: 
    [name |-> <<115, 101, 114, 118, 101, 114>>,
     value |-> <<>>],  \* 54 server: 
    [name |-> <<115, 101, 116, 45, 99, 111, 111, 107, 105, 101>>,
     value |-> <<>>],  \* 55 set-cookie: 
    [name |-> <<115, 116, 114, 105, 99, 116, 45, 116, 114, 97, 110, 115, 112, 111, 114, 116, 45, 115, 101, 99, 117, 114, 105, 116, 121>>,
     value |-> <<>>],  \* 56 strict-transport-security: 
    [name |-> <<116, 114, 97, 110, 115, 102, 101, 114, 45, 101, 110, 99, 111, 100, 105, 110, 103>>,
     value |-> <<>>],  \* 57 transfer-encoding: 
    [name |-> <<117, 115, 101, 114, 45, 97, 103, 101, 110, 116>>,
     value |-> <<>>],  \* 58 user-agent: 
    [name |-> <<118, 97, 114, 121>>,
     value |-> <<>>],  \* 59 vary: 
    [name |-> <<118, 105, 97>>,
     value |-> <<>>],  \* 60 via: 
    [name |-> <<119, 119, 119, 45, 97, 117, 116, 104, 101, 110, 116, 105, 99, 97, 116, 101>>,
     value |-> <<>>]  \* 61 www-authenticate: 
    >>

\* HUFFMAN_CODES: entry ch + 1 is <<code, number_of_bits>> of octet ch
HUFFMAN_CODES == <<
    <<8184, 13>>, <<8388568, 23>>, <<268435426, 28>>, <<268435427, 28>>,
    <<268435428, 28>>, <<268435429, 28>>, <<268435430, 28>>, <<268435431, 28>>,
    <<268435432, 28>>, <<16777194, 24>>, <<1073741820, 30>>, <<268435433, 28>>,
    <<268435434, 28>>, <<1073741821, 30>>, <<268435435, 28>>, <<268435436, 28>>,
    <<268435437, 28>>, <<268435438, 28>>, <<268435439, 28>>, <<268435440, 28>>,
    <<268435441, 28>>, <<268435442, 28>>, <<1073741822, 30>>, <<268435443, 28>>,
    <<268435444, 28>>, <<268435445, 28>>, <<268435446, 28>>, <<268435447, 28>>,
    <<268435448, 28>>, <<268435449, 28>>, <<268435450, 28>>, <<268435451, 28>>,
    <<20, 6>>, <<1016, 10>>, <<1017, 10>>, <<1018, 10>>,
    <<1019, 10>>, <<1020, 10>>, <<2042, 11>>, <<1021, 10>>,
    <<1022, 10>>, <<1023, 10>>, <<2043, 11>>, <<2044, 11>>,
    <<2045, 11>>, <<2046, 11>>, <<32752, 15>>, <<32753, 15>>,
    <<0, 5>>, <<1, 5>>, <<2, 5>>, <<21, 6>>,
    <<22, 6>>, <<23, 6>>, <<24, 6>>, <<25, 6>>,
    <<26, 6>>, <<27, 6>>, <<28, 6>>, <<29, 6>>,
    <<30, 6>>, <<31, 6>>, <<92, 7>>, <<93, 7>>,
    <<94, 7>>, <<95, 7>>, <<96, 7>>, <<97, 7>>,
    <<98, 7>>, <<99, 7>>, <<100, 7>>, <<101, 7>>,
    <<102, 7>>, <<103, 7>>, <<104, 7>>, <<105, 7>>,
    <<106, 7>>, <<107, 7>>, <<108, 7>>, <<109, 7>>,
    <<110, 7>>, <<111, 7>>, <<112, 7>>, <<113, 7>>,
    <<114, 7>>, <<2033, 11>>, <<2034, 11>>, <<2035, 11>>,
    <<2036, 11>>, <<2037, 11>>, <<2038, 11>>, <<2039, 11>>,
    <<2040, 11>>, <<2041, 11>>, <<32672, 15>>, <<32673, 15>>,
    <<32674, 15>>, <<3, 5>>, <<32, 6>>, <<33, 6>>,
    <<34, 6>>, <<4, 5>>, <<35, 6>>, <<36, 6>>,
    <<37, 6>>, <<5, 5>>, <<38, 6>>, <<39, 6>>,
    <<40, 6>>, <<41, 6>>, <<42, 6>>, <<43, 6>>,
    <<44, 6>>, <<45, 6>>, <<46, 6>>, <<6, 5>>,
    <<7, 5>>, <<47, 6>>, <<115, 7>>, <<116, 7>>,
    <<48, 6>>, <<49, 6>>, <<50, 6>>, <<32675, 15>>,
    <<32676, 15>>, <<32677, 15>>, <<32678, 15>>, <<32679, 15>>,
    <<32680, 15>>, <<32681, 15>>, <<32682, 15>>, <<32683, 15>>,
    <<32684, 15>>, <<32685, 15>>, <<32686, 15>>, <<32687, 15>>,
    <<32688, 15>>, <<32689, 15>>, <<32690, 15>>, <<32691, 15>>,
    <<32692, 15>>, <<32693, 15>>, <<32694, 15>>, <<32695, 15>>,
    <<32696, 15>>, <<32697, 15>>, <<32698, 15>>, <<32699, 15>>,
    <<32700, 15>>, <<32701, 15>>, <<32702, 15>>, <<32703, 15>>,
    <<32704, 15>>, <<32705, 15>>, <<32706, 15>>, <<32707, 15>>,
    <<32708, 15>>, <<32709, 15>>, <<32710, 15>>, <<32711, 15>>,
    <<32712, 15>>, <<32713, 15>>, <<32714, 15>>, <<32715, 15>>,
    <<32716, 15>>, <<32717, 15>>, <<32718, 15>>, <<32719, 15>>,
    <<32720, 15>>, <<32721, 15>>, <<32722, 15>>, <<32723, 15>>,
    <<32724, 15>>, <<32725, 15>>, <<32726, 15>>, <<32727, 15>>,
    <<32728, 15>>, <<32729, 15>>, <<32730, 15>>, <<32731, 15>>,
    <<32732, 15>>, <<32733, 15>>, <<32734, 15>>, <<32735, 15>>,
    <<32736, 15>>, <<32737, 15>>, <<32738, 15>>, <<32739, 15>>,
    <<32740, 15>>, <<32741, 15>>, <<32742, 15>>, <<32743, 15>>,
    <<32744, 15>>, <<32745, 15>>, <<32746, 15>>, <<32747, 15>>,
    <<32748, 15>>, <<32749, 15>>, <<32750, 15>>, <<32751, 15>>,
    <<32754, 15>>, <<32755, 15>>, <<32756, 15>>, <<32757, 15>>,
    <<32758, 15>>, <<32759, 15>>, <<524160, 19>>, <<524161, 19>>,
    <<524162, 19>>, <<524163, 19>>, <<524164, 19>>, <<524165, 19>>,
    <<524166, 19>>, <<524167, 19>>, <<524168, 19>>, <<524169, 19>>,
    <<524170, 19>>, <<524171, 19>>, <<524172, 19>>, <<524173, 19>>,
    <<524174, 19>>, <<524175, 19>>, <<524176, 19>>, <<524177, 19>>,
    <<524178, 19>>, <<524179, 19>>, <<524180, 19>>, <<524181, 19>>,
    <<524182, 19>>, <<524183, 19>>, <<524184, 19>>, <<524185, 19>>,
    <<524186, 19>>, <<524187, 19>>, <<524188, 19>>, <<524189, 19>>,
    <<524190, 19>>, <<524191, 19>>, <<524192, 19>>, <<524193, 19>>,
    <<524194, 19>>, <<524195, 19>>, <<524196, 19>>, <<524197, 19>>,
    <<524198, 19>>, <<524199, 19>>, <<524200, 19>>, <<524201, 19>>,
    <<524202, 19>>, <<524203, 19>>, <<524204, 19>>, <<524205, 19>>,
    <<524206, 19>>, <<524207, 19>>, <<524208, 19>>, <<524209, 19>>
    >>

\* a uint64_t is the sequence of its four 16-bit limbs, least significant
\* first, so that a shift that drops bits and an addition that wraps can be
\* told from the exact results
LimbBits == 16
LimbBase == 2 ^ LimbBits
UInt64Limbs == 4

\* the k-limb number of a value below 2^31
LimbsOf(n, k) == [i \in 1..k |-> IF i = 1 THEN n % LimbBase
                                 ELSE IF i = 2 THEN n \div LimbBase ELSE 0]

\* the value of a k-limb number, 2^31 - 1 when it is 2^31 or more (it is
\* only compared with lengths and indices far below)
ValueOf(limbs) ==
    IF (\E i \in 3..Len(limbs) : limbs[i] # 0) \/ limbs[2] >= LimbBase \div 2
    THEN 2147483647
    ELSE limbs[1] + LimbBase * limbs[2]

\* (septet << m) in k limbs: the bits shifted past the last limb are dropped
ShiftLeft(septet, m, k) ==
    [i \in 1..k |->
        IF i = (m \div LimbBits) + 1
        THEN (septet * (2 ^ (m % LimbBits))) % LimbBase
        ELSE IF i = (m \div LimbBits) + 2
        THEN (septet * (2 ^ (m % LimbBits))) \div LimbBase
        ELSE 0]

\* a + b in Len(a) limbs: the carry out of the last limb is dropped
RECURSIVE AddFrom(_, _, _, _, _)
AddFrom(a, b, i, carry, acc) ==
    IF i > Len(a) THEN acc
    ELSE AddFrom(a, b, i + 1, (a[i] + b[i] + carry) \div LimbBase,
                 Append(acc, (a[i] + b[i] + carry) % LimbBase))

AddLimbs(a, b) == AddFrom(a, b, 1, 0, <<>>)

\* the do-while loop of decode_integer: the result is [value, error, data].
\* m is the shift before the addition; with m = 70 the shift is by more than
\* the width of a uint64_t, and its result is never read: m becomes 77 and
\* the loop returns {0, INTEGER_OVERFLOW}
RECURSIVE decode_integer_loop(_, _, _)
decode_integer_loop(data, value, m) ==
    IF data = <<>>
    THEN [value |-> LimbsOf(0, UInt64Limbs), error |-> "BUFFER_TOO_SMALL", data |-> data]
    ELSE LET byte_val == Head(data)
             \* (m / 128) > (UINT64_MAX / 128): the right side, 2^57 - 1, is
             \* above 2^31 - 1
             heuristic == (m \div 128) > 2147483647 /\ m >= 63 /\ byte_val % 128 > 0
         IN IF heuristic
            THEN [value |-> LimbsOf(0, UInt64Limbs), error |-> "INTEGER_OVERFLOW",
                  data |-> Tail(data)]
            ELSE IF m + 7 > 70
            THEN [value |-> LimbsOf(0, UInt64Limbs), error |-> "INTEGER_OVERFLOW",
                  data |-> Tail(data)]
            ELSE IF byte_val >= 128
            THEN decode_integer_loop(Tail(data),
                     AddLimbs(value, ShiftLeft(byte_val % 128, m, UInt64Limbs)),
                     m + 7)
            ELSE [value |-> AddLimbs(value, ShiftLeft(byte_val % 128, m, UInt64Limbs)),
                  error |-> "OK", data |-> Tail(data)]

\* HpackDecoder::decode_integer: the result is [value, error, data], data
\* being what is left of the input
decode_integer(data, prefix_bits) ==
    IF data = <<>>
    THEN [value |-> LimbsOf(0, UInt64Limbs), error |-> "BUFFER_TOO_SMALL", data |-> data]
    ELSE LET mask == (2 ^ prefix_bits) - 1
             value == Head(data) % (mask + 1)
         IN IF value < mask
            THEN [value |-> LimbsOf(value, UInt64Limbs), error |-> "OK", data |-> Tail(data)]
            ELSE decode_integer_loop(Tail(data), LimbsOf(value, UInt64Limbs), 0)

\* HpackEncoder::encode_integer: the octets appended to the buffer
RECURSIVE encode_integer_rest(_)
encode_integer_rest(value) ==
    IF value >= 128 THEN <<128 + (value % 128)>> \o encode_integer_rest(value \div 128)
    ELSE <<value>>

encode_integer(prefix_mask, prefix_bits, value) ==
    LET N == (2 ^ prefix_bits) - 1 IN
    IF value < N THEN <<prefix_mask + value>>
    ELSE <<prefix_mask + N>> \o encode_integer_rest(value - N)


\* the bits of the code of octet ch (HUFFMAN_CODES[ch + 1] is the pair of the
\* code and its length in bits), most significant first
CodeBits(ch) ==
    [j \in 1..HUFFMAN_CODES[ch + 1][2] |->
        (HUFFMAN_CODES[ch + 1][1] \div (2 ^ (HUFFMAN_CODES[ch + 1][2] - j))) % 2]

\* the bits huffman_encode shifts into its accumulator, in order
RECURSIVE EncodedBits(_)
EncodedBits(input) ==
    IF input = <<>> THEN <<>> ELSE CodeBits(Head(input)) \o EncodedBits(Tail(input))

\* the octets taken from the accumulator, eight bits at a time; what is left
\* at the end is filled with the most significant bits of EOS (ones)
RECURSIVE PackOctets(_)
PackOctets(bits) ==
    IF bits = <<>> THEN <<>>
    ELSE IF Len(bits) < 8
    THEN PackOctets(bits \o [j \in 1..(8 - Len(bits)) |-> 1])
    ELSE <<bits[1] * 128 + bits[2] * 64 + bits[3] * 32 + bits[4] * 16
           + bits[5] * 8 + bits[6] * 4 + bits[7] * 2 + bits[8]>>
         \o PackOctets(SubSeq(bits, 9, Len(bits)))

\* Hpack::huffman_encode (every octet has a code, so no INVALID_INPUT)
huffman_encode(input) == PackOctets(EncodedBits(input))

\* a node of the decoding tree is the pair <<v, l>>: the l bits read since
\* the root, as a number.  initialize_huffman_decode_tree makes the node exist
\* when those bits begin the code of an octet or the 30 ones of EOS
IsEosPrefix(v, l) == l >= 1 /\ l <= 30 /\ v = (2 ^ l) - 1

NodeExists(v, l) ==
    \/ IsEosPrefix(v, l)
    \/ \E ch \in 0..255 :
          /\ HUFFMAN_CODES[ch + 1][2] >= l
          /\ HUFFMAN_CODES[ch + 1][1] \div (2 ^ (HUFFMAN_CODES[ch + 1][2] - l)) = v

\* the octets whose code is exactly the bits of the node; the tree stores the
\* last one written, the largest
SymbolsAt(v, l) == {ch \in 0..255 : HUFFMAN_CODES[ch + 1][2] = l /\ HUFFMAN_CODES[ch + 1][1] = v}

\* the loop of huffman_decode from bit k on, at node <<v, l>>; the result is
\* [str, error]
RECURSIVE huffman_decode_from(_, _, _, _, _)
huffman_decode_step(input, k, v, l, decoded) ==
    IF ~NodeExists(v, l) THEN [str |-> decoded, error |-> "INVALID_INPUT"]
    ELSE IF SymbolsAt(v, l) # {}
    THEN huffman_decode_from(input, k + 1, 0, 0,
             Append(decoded, CHOOSE ch \in SymbolsAt(v, l) :
                                 \A other \in SymbolsAt(v, l) : other <= ch))
    ELSE IF (k - 1) \div 8 = Len(input) - 1 /\ ~IsEosPrefix(v, l)
    THEN [str |-> decoded, error |-> "INVALID_PADDING"]
    ELSE huffman_decode_from(input, k + 1, v, l, decoded)

huffman_decode_from(input, k, v, l, decoded) ==
    IF k > 8 * Len(input)
    THEN IF l # 0 /\ ~IsEosPrefix(v, l)
         THEN [str |-> decoded, error |-> "INVALID_PADDING"]
         ELSE [str |-> decoded, error |-> "OK"]
    ELSE huffman_decode_step(
             input, k,
             \* bit k (from 1), the most significant bit of each octet first
             (2 * v) + ((input[((k - 1) \div 8) + 1] \div (2 ^ (7 - ((k - 1) % 8)))) % 2),
             l + 1, decoded)

\* Hpack::huffman_decode (the output limit of 65536 octets is never reached)
huffman_decode(input) == huffman_decode_from(input, 1, 0, 0, <<>>)

\* HpackEncoder::encode_string: the octets appended to the buffer
encode_string(str, try_huffman) ==
    IF try_huffman /\ Len(huffman_encode(str)) < Len(str)
    THEN encode_integer(128, 7, Len(huffman_encode(str))) \o huffman_encode(str)
    ELSE encode_integer(0, 7, Len(str)) \o str

\* HpackDecoder::decode_string: the result is [str, error, data]
\* length is the result of decode_integer
DecodeStringBody(length, huffman_encoded) ==
    IF length.error # "OK" THEN [str |-> <<>>, error |-> length.error, data |-> length.data]
    ELSE IF ValueOf(length.value) > Len(length.data)
    THEN [str |-> <<>>, error |-> "BUFFER_TOO_SMALL", data |-> length.data]
    ELSE LET string_data == SubSeq(length.data, 1, ValueOf(length.value))
             rest == SubSeq(length.data, ValueOf(length.value) + 1, Len(length.data))
         IN IF ~huffman_encoded
            THEN [str |-> string_data, error |-> "OK", data |-> rest]
            ELSE IF huffman_decode(string_data).error # "OK"
            THEN [str |-> <<>>, error |-> "INVALID_HUFFMAN_CODE", data |-> rest]
            ELSE [str |-> huffman_decode(string_data).str, error |-> "OK", data |-> rest]

decode_string(data) ==
    IF data = <<>> THEN [str |-> <<>>, error |-> "BUFFER_TOO_SMALL", data |-> data]
    ELSE DecodeStringBody(decode_integer(data, 7), Head(data) >= 128)


HttpHeader(name, value, sensitive) ==
    [name |-> name, value |-> value, sensitive |-> sensitive]

NoHeader == [name |-> <<>>, value |-> <<>>, sensitive |-> FALSE, none |-> TRUE]

\* DynamicTableEntry of both codecs
DynamicTableEntry(n, v) == [name |-> n, value |-> v, size |-> Len(n) + Len(v) + 32]

\* Hpack::find_in_static_table: the pair <<index, value_matches>>
find_in_static_table(header) ==
    LET names == {i \in 1..Len(STATIC_TABLE) : STATIC_TABLE[i].name = header.name}
        exact == {i \in names : STATIC_TABLE[i].value = header.value}
    IN IF names = {} THEN <<0, FALSE>>
       ELSE IF exact # {} THEN <<CHOOSE i \in exact : \A j \in exact : i <= j, TRUE>>
       ELSE <<CHOOSE i \in names : \A j \in names : i <= j, FALSE>>

(* HpackDecoder.  dynamic_table_ has the newest entry first; inserted (ghost)
   lists every entry ever pushed, newest first. *)
HpackDecoder(max_dynamic_table_size) ==
    [dynamic_table_ |-> <<>>,
     current_dynamic_table_size_ |-> 0,
     max_dynamic_table_size_ |-> max_dynamic_table_size,
     inserted |-> <<>>]

\* the eviction left out
HpackDecoder_evict_Skipped(d, required_space) == d

\* HpackDecoder::evict_from_dynamic_table: the oldest entry is the last
RECURSIVE HpackDecoder_evict_from_dynamic_table(_, _)
HpackDecoder_evict_from_dynamic_table(d, required_space) ==
    IF /\ d.current_dynamic_table_size_ + required_space > d.max_dynamic_table_size_
       /\ d.dynamic_table_ # <<>>
    THEN HpackDecoder_evict_from_dynamic_table(
             [d EXCEPT !.current_dynamic_table_size_ =
                           @ - d.dynamic_table_[Len(d.dynamic_table_)].size,
                       !.dynamic_table_ = SubSeq(@, 1, Len(@) - 1)],
             required_space)
    ELSE d

HpackDecoder_add_to_dynamic_table(d, header) ==
    IF Len(header.name) + Len(header.value) + 32 > d.max_dynamic_table_size_
    THEN [d EXCEPT !.dynamic_table_ = <<>>, !.current_dynamic_table_size_ = 0]
    ELSE [HpackDecoder_evict_from_dynamic_table(
              d, Len(header.name) + Len(header.value) + 32)
          EXCEPT !.dynamic_table_ = <<DynamicTableEntry(header.name, header.value)>> \o @,
                 !.current_dynamic_table_size_ =
                     @ + Len(header.name) + Len(header.value) + 32,
                 !.inserted = <<DynamicTableEntry(header.name, header.value)>> \o @]

set_max_dynamic_table_size(d, max_size) ==
    HpackDecoder_evict_from_dynamic_table(
        [d EXCEPT !.max_dynamic_table_size_ = max_size], 0)

\* get_header_from_tables: NoHeader stands for std::nullopt
get_header_from_tables(d, index) ==
    IF index = 0 THEN NoHeader
    ELSE IF index <= Len(STATIC_TABLE)
    THEN HttpHeader(STATIC_TABLE[index].name, STATIC_TABLE[index].value, FALSE)
    ELSE IF index - Len(STATIC_TABLE) > Len(d.dynamic_table_) THEN NoHeader
    ELSE HttpHeader(d.dynamic_table_[index - Len(STATIC_TABLE)].name,
                    d.dynamic_table_[index - Len(STATIC_TABLE)].value, FALSE)

\* HpackDecoder::decode: the result is [headers, error, decoder]
DecodeResult(d, headers, error) == [headers |-> headers, error |-> error, decoder |-> d]

RECURSIVE decode_loop(_, _, _)

\* an Indexed Header Field, index being the result of decode_integer
DecodeIndexed(d, headers, index) ==
    IF index.error # "OK" THEN DecodeResult(d, headers, index.error)
    ELSE IF ValueOf(index.value) = 0 THEN DecodeResult(d, headers, "INDEX_OUT_OF_BOUNDS")
    ELSE IF get_header_from_tables(d, ValueOf(index.value)) = NoHeader
    THEN DecodeResult(d, headers, "INDEX_OUT_OF_BOUNDS")
    ELSE decode_loop(d, index.data,
                     Append(headers, get_header_from_tables(d, ValueOf(index.value))))

\* the end of a literal representation: value is the result of decode_string
DecodeLiteralValue(d, headers, kind, name, value) ==
    IF value.error # "OK" THEN DecodeResult(d, headers, value.error)
    ELSE decode_loop(
             IF kind = "incremental"
             THEN HpackDecoder_add_to_dynamic_table(d, HttpHeader(name, value.str, FALSE))
             ELSE d,
             value.data,
             Append(headers, HttpHeader(name, value.str, kind = "never")))

\* a literal name: name is the result of decode_string
DecodeLiteralName(d, headers, kind, name) ==
    IF name.error # "OK" THEN DecodeResult(d, headers, name.error)
    ELSE DecodeLiteralValue(d, headers, kind, name.str, decode_string(name.data))

\* the three literal representations, index being the result of decode_integer
DecodeLiteral(d, headers, kind, index) ==
    IF index.error # "OK" THEN DecodeResult(d, headers, index.error)
    ELSE IF ValueOf(index.value) = 0
    THEN DecodeLiteralName(d, headers, kind, decode_string(index.data))
    ELSE IF get_header_from_tables(d, ValueOf(index.value)) = NoHeader
    THEN DecodeResult(d, headers, "INDEX_OUT_OF_BOUNDS")
    ELSE DecodeLiteralValue(d, headers, kind,
                            get_header_from_tables(d, ValueOf(index.value)).name,
                            decode_string(index.data))

\* a Dynamic Table Size Update, size being the result of decode_integer
DecodeSizeUpdate(d, headers, size) ==
    IF size.error # "OK" THEN DecodeResult(d, headers, size.error)
    ELSE IF headers # <<>> THEN DecodeResult(d, headers, "COMPRESSION_ERROR")
    ELSE IF ValueOf(size.value) > DEFAULT_DYNAMIC_TABLE_SIZE
    THEN DecodeResult(d, headers, "COMPRESSION_ERROR")
    ELSE decode_loop(set_max_dynamic_table_size(d, ValueOf(size.value)),
                     size.data, headers)

decode_loop(d, data, headers) ==
    IF data = <<>> THEN DecodeResult(d, headers, "OK")
    ELSE IF Head(data) >= 128
    THEN DecodeIndexed(d, headers, decode_integer(data, 7))
    ELSE IF Head(data) >= 64
    THEN DecodeLiteral(d, headers, "incremental", decode_integer(data, 6))
    ELSE IF Head(data) < 16
    THEN DecodeLiteral(d, headers, "without", decode_integer(data, 4))
    ELSE IF Head(data) < 32
    THEN DecodeLiteral(d, headers, "never", decode_integer(data, 4))
    ELSE DecodeSizeUpdate(d, headers, decode_integer(data, 5))

decode(d, data) == decode_loop(d, data, <<>>)

(* HpackEncoder *)
HpackEncoder(max_dynamic_table_size) ==
    [dynamic_table_ |-> <<>>,
     current_dynamic_table_size_ |-> 0,
     own_max_dynamic_table_size_ |-> max_dynamic_table_size,
     peer_max_dynamic_table_size_ |-> DEFAULT_DYNAMIC_TABLE_SIZE,
     inserted |-> <<>>]

RECURSIVE HpackEncoder_evict_from_dynamic_table(_, _)
HpackEncoder_evict_from_dynamic_table(e, required_space) ==
    IF /\ e.current_dynamic_table_size_ + required_space > e.own_max_dynamic_table_size_
       /\ e.dynamic_table_ # <<>>
    THEN HpackEncoder_evict_from_dynamic_table(
             [e EXCEPT !.current_dynamic_table_size_ =
                           @ - e.dynamic_table_[Len(e.dynamic_table_)].size,
                       !.dynamic_table_ = SubSeq(@, 1, Len(@) - 1)],
             required_space)
    ELSE e

HpackEncoder_add_to_dynamic_table(e, header) ==
    IF Len(header.name) + Len(header.value) + 32 > e.own_max_dynamic_table_size_
    THEN [e EXCEPT !.dynamic_table_ = <<>>, !.current_dynamic_table_size_ = 0]
    ELSE [HpackEncoder_evict_from_dynamic_table(
              e, Len(header.name) + Len(header.value) + 32)
          EXCEPT !.dynamic_table_ = <<DynamicTableEntry(header.name, header.value)>> \o @,
                 !.current_dynamic_table_size_ =
                     @ + Len(header.name) + Len(header.value) + 32,
                 !.inserted = <<DynamicTableEntry(header.name, header.value)>> \o @]

\* the encoder and the returned bool
set_own_max_dynamic_table_size(e, max_size) ==
    <<HpackEncoder_evict_from_dynamic_table(
          [e EXCEPT !.own_max_dynamic_table_size_ = max_size], 0),
      e.own_max_dynamic_table_size_ # max_size>>

\* find_in_dynamic_table: the pair <<index, value_matches>> of the first
\* entry that has the name
find_in_dynamic_table(e, header) ==
    LET names == {i \in 1..Len(e.dynamic_table_) : e.dynamic_table_[i].name = header.name}
        first == CHOOSE i \in names : \A j \in names : i <= j
    IN IF names = {} THEN <<0, FALSE>>
       ELSE <<first, e.dynamic_table_[first].value = header.value>>

\* HpackEncoder::encode: the result is [bytes, encoder, reps]; reps (ghost)
\* notes, for each header, the representation chosen, the index written and
\* the dynamic table the header was looked up in
Representation(e, header, kind, index) ==
    [header |-> header, kind |-> kind, index |-> index, table |-> e.dynamic_table_]

RECURSIVE encode_loop(_, _, _, _)

\* a literal representation with name index name_table_idx
EncodeLiteral(e, headers, output, reps, name_table_idx) ==
    LET header == Head(headers)
        can_be_added_to_dynamic_table ==
            Len(header.name) + Len(header.value) + 32 <= e.own_max_dynamic_table_size_
        name == IF name_table_idx = 0 THEN encode_string(header.name, TRUE) ELSE <<>>
    IN IF header.sensitive
       THEN encode_loop(e, Tail(headers),
                output \o encode_integer(16, 4, name_table_idx) \o name
                       \o encode_string(header.value, TRUE),
                Append(reps, Representation(e, header, "never", name_table_idx)))
       ELSE IF can_be_added_to_dynamic_table
       THEN encode_loop(HpackEncoder_add_to_dynamic_table(e, header), Tail(headers),
                output \o encode_integer(64, 6, name_table_idx) \o name
                       \o encode_string(header.value, TRUE),
                Append(reps, Representation(e, header, "incremental", name_table_idx)))
       ELSE encode_loop(e, Tail(headers),
                output \o encode_integer(0, 4, name_table_idx) \o name
                       \o encode_string(header.value, TRUE),
                Append(reps, Representation(e, header, "without", name_table_idx)))

\* one header, given the results of the two lookups
EncodeHeader(e, headers, output, reps, static, dyn) ==
    IF static[1] # 0 /\ static[2]
    THEN encode_loop(e, Tail(headers), output \o encode_integer(128, 7, static[1]),
                     Append(reps, Representation(e, Head(headers), "indexed", static[1])))
    ELSE IF dyn[1] # 0 /\ dyn[2]
    THEN encode_loop(e, Tail(headers),
                     output \o encode_integer(128, 7, Len(STATIC_TABLE) + dyn[1]),
                     Append(reps, Representation(e, Head(headers), "indexed",
                                                 Len(STATIC_TABLE) + dyn[1])))
    ELSE EncodeLiteral(e, headers, output, reps,
                       IF static[1] # 0 THEN static[1]
                       ELSE IF dyn[1] # 0 THEN Len(STATIC_TABLE) + dyn[1] ELSE 0)

encode_loop(e, headers, output, reps) ==
    IF headers = <<>> THEN [bytes |-> output, encoder |-> e, reps |-> reps]
    ELSE EncodeHeader(e, headers, output, reps,
                      find_in_static_table(Head(headers)),
                      find_in_dynamic_table(e, Head(headers)))

encode(e, headers) == encode_loop(e, headers, <<>>, <<>>)

(* ----------------------- frames as octets ------------------------------ *)
\* FrameType as the octet on the wire
FrameType ==
    [DATA |-> 0, HEADERS |-> 1, PRIORITY |-> 2, RST_STREAM |-> 3, SETTINGS |-> 4,
     PUSH_PROMISE |-> 5, PING |-> 6, GOAWAY |-> 7, WINDOW_UPDATE |-> 8,
     CONTINUATION |-> 9]

END_STREAM_FLAG == 1
ACK_FLAG == 1
END_HEADERS_FLAG == 4
PADDED_FLAG == 8
PRIORITY_FLAG == 32

\* header.flags & flag, flag a single bit
HasFlag(flags, flag) == (flags \div flag) % 2 = 1
SetFlag(flags, flag) == IF HasFlag(flags, flag) THEN flags ELSE flags + flag
ClearFlag(flags, flag) == IF HasFlag(flags, flag) THEN flags - flag ELSE flags

FrameHeader(length, type, flags, stream_id) ==
    [length |-> length, type |-> type, flags |-> flags, stream_id |-> stream_id]

\* A frame structure with its header.  One record holds the members of all
\* the frame structs; a std::optional member is <<>> (no value) or <<v>>, and
\* the three priority members are kept that way in PriorityFrame too.  A
\* uint32_t that uses all its bits (error_code, Setting::value) is the pair
\* <<bit 31, low 31 bits>>.
AnyHttp2Frame(header) ==
    [header |-> header, pad_length |-> <<>>, data |-> <<>>,
     exclusive_dependency |-> <<>>, stream_dependency |-> <<>>, weight |-> <<>>,
     headers |-> <<>>, error_code |-> <<0, 0>>, settings |-> <<>>,
     promised_stream_id |-> 0, opaque_data |-> <<>>, last_stream_id |-> 0,
     additional_debug_data |-> <<>>, window_size_increment |-> 0,
     header_block_fragment |-> <<>>, payload |-> <<>>]

\* std::optional::value_or
value_or(optional, default) == IF optional = <<>> THEN default ELSE optional[1]

(* FrameSerializer *)
write_uint16_big_endian(value) == <<(value \div 256) % 256, value % 256>>

write_uint24_big_endian(value) ==
    <<(value \div 65536) % 256, (value \div 256) % 256, value % 256>>

\* value is <<bit 31, low 31 bits>>
write_uint32_big_endian(value) ==
    <<128 * value[1] + ((value[2] \div 16777216) % 128), (value[2] \div 65536) % 256,
      (value[2] \div 256) % 256, value[2] % 256>>

\* the R bit of the stream id is masked out
write_frame_header(header) ==
    write_uint24_big_endian(header.length) \o <<header.type, header.flags>>
        \o write_uint32_big_endian(<<0, header.stream_id>>)

\* the frame header with the length of the payload, then the payload
WithPayload(header, payload) ==
    write_frame_header([header EXCEPT !.length = Len(payload)]) \o payload

\* the Pad Length octet and the zero padding around a body, when PADDED is set
Padded(frame, body) ==
    IF HasFlag(frame.header.flags, PADDED_FLAG)
    THEN <<value_or(frame.pad_length, 0)>> \o body
             \o [i \in 1..value_or(frame.pad_length, 0) |-> 0]
    ELSE body

serialize_data_frame(frame) == WithPayload(frame.header, Padded(frame, frame.data))

\* the priority fields of a HEADERS frame, when PRIORITY is set
PriorityFields(frame) ==
    IF HasFlag(frame.header.flags, PRIORITY_FLAG)
    THEN write_uint32_big_endian(
             <<IF value_or(frame.exclusive_dependency, FALSE) THEN 1 ELSE 0,
               value_or(frame.stream_dependency, 0)>>)
             \o <<value_or(frame.weight, 0)>>
    ELSE <<>>

\* encoded_headers is hpack_encoder.encode(frame.headers)
serialize_headers_frame(frame, encoded_headers) ==
    WithPayload(frame.header,
                Padded(frame, PriorityFields(frame) \o encoded_headers))

serialize_priority_frame(frame) ==
    write_frame_header([frame.header EXCEPT !.length = 5])
        \o write_uint32_big_endian(
               <<IF frame.exclusive_dependency[1] THEN 1 ELSE 0,
                 frame.stream_dependency[1]>>)
        \o <<frame.weight[1]>>

serialize_rst_stream_frame(frame) ==
    write_frame_header([frame.header EXCEPT !.length = 4])
        \o write_uint32_big_endian(frame.error_code)

RECURSIVE SettingsPayload(_)
SettingsPayload(settings) ==
    IF settings = <<>> THEN <<>>
    ELSE write_uint16_big_endian(Head(settings).identifier)
             \o write_uint32_big_endian(Head(settings).value)
             \o SettingsPayload(Tail(settings))

serialize_settings_frame(frame) ==
    WithPayload(frame.header,
                IF HasFlag(frame.header.flags, ACK_FLAG) THEN <<>>
                ELSE SettingsPayload(frame.settings))

serialize_push_promise_frame(frame, encoded_headers) ==
    WithPayload(frame.header,
                Padded(frame, write_uint32_big_endian(<<0, frame.promised_stream_id>>)
                                  \o encoded_headers))

serialize_ping_frame(frame) ==
    write_frame_header([frame.header EXCEPT !.length = 8]) \o frame.opaque_data

serialize_goaway_frame(frame) ==
    WithPayload(frame.header,
                write_uint32_big_endian(<<0, frame.last_stream_id>>)
                    \o write_uint32_big_endian(frame.error_code)
                    \o frame.additional_debug_data)

serialize_window_update_frame(frame) ==
    write_frame_header([frame.header EXCEPT !.length = 4])
        \o write_uint32_big_endian(<<0, frame.window_size_increment>>)

serialize_continuation_frame(frame) ==
    WithPayload(frame.header, frame.header_block_fragment)

\* the serializer for the type of the frame; the result is [bytes, encoder]
Serialize(frame, e) ==
    LET type == frame.header.type
        plain(bytes) == [bytes |-> bytes, encoder |-> e] IN
    CASE type = FrameType.DATA -> plain(serialize_data_frame(frame))
      [] type = FrameType.HEADERS ->
            [bytes |-> serialize_headers_frame(frame, encode(e, frame.headers).bytes),
             encoder |-> encode(e, frame.headers).encoder]
      [] type = FrameType.PRIORITY -> plain(serialize_priority_frame(frame))
      [] type = FrameType.RST_STREAM -> plain(serialize_rst_stream_frame(frame))
      [] type = FrameType.SETTINGS -> plain(serialize_settings_frame(frame))
      [] type = FrameType.PUSH_PROMISE ->
            [bytes |-> serialize_push_promise_frame(frame,
                                                    encode(e, frame.headers).bytes),
             encoder |-> encode(e, frame.headers).encoder]
      [] type = FrameType.PING -> plain(serialize_ping_frame(frame))
      [] type = FrameType.GOAWAY -> plain(serialize_goaway_frame(frame))
      [] type = FrameType.WINDOW_UPDATE -> plain(serialize_window_update_frame(frame))
      [] type = FrameType.CONTINUATION -> plain(serialize_continuation_frame(frame))

\* END_HEADERS set on every frame of the sequence
EndHeadersWhenDone_Always(flags, remaining_hpack_size) ==
    SetFlag(flags, END_HEADERS_FLAG)

\* if (remaining_hpack_size == 0) flags |= END_HEADERS_FLAG
EndHeadersWhenDone(flags, remaining_hpack_size) ==
    IF remaining_hpack_size = 0 THEN SetFlag(flags, END_HEADERS_FLAG) ELSE flags

\* std::min(remaining, max) with max = peer_max_frame_size - prefix computed
\* in uint32_t: a prefix longer than peer_max_frame_size wraps to a value
\* above every block size
FirstChunkSize(remaining, peer_max_frame_size, prefix_size) ==
    IF peer_max_frame_size < prefix_size THEN remaining
    ELSE Min(remaining, peer_max_frame_size - prefix_size)

\* the while loop of serialize_header_block_with_continuation: the
\* CONTINUATION frames for the rest of the block
RECURSIVE ContinuationFrames(_, _, _)
ContinuationFrames(stream_id, rest, peer_max_frame_size) ==
    IF rest = <<>> THEN <<>>
    ELSE <<serialize_continuation_frame(
               [AnyHttp2Frame(FrameHeader(0, FrameType.CONTINUATION,
                    EndHeadersWhenDone(0, Len(rest) - Min(Len(rest), peer_max_frame_size)),
                    stream_id))
                EXCEPT !.header_block_fragment =
                           SubSeq(rest, 1, Min(Len(rest), peer_max_frame_size))])>>
         \o ContinuationFrames(stream_id,
                SubSeq(rest, Min(Len(rest), peer_max_frame_size) + 1, Len(rest)),
                peer_max_frame_size)

\* the first frame, given the size of its chunk of the block
FirstFrame(initial_header_template, prefix, full_hpack_block, chunk) ==
    WithPayload([initial_header_template EXCEPT
                    !.flags = EndHeadersWhenDone(ClearFlag(@, END_HEADERS_FLAG),
                                                 Len(full_hpack_block) - chunk)],
                prefix \o SubSeq(full_hpack_block, 1, chunk))

HeaderSequence(initial_header_template, prefix, full_hpack_block, chunk, peer_max_frame_size) ==
    [headers_frame_bytes |->
         FirstFrame(initial_header_template, prefix, full_hpack_block, chunk),
     continuation_frames_bytes |->
         ContinuationFrames(initial_header_template.stream_id,
                            SubSeq(full_hpack_block, chunk + 1, Len(full_hpack_block)),
                            peer_max_frame_size)]

\* full_hpack_block is hpack_encoder.encode(headers_to_encode);
\* peer_max_frame_size is positive (with 0 the loop does not end)
serialize_header_block_with_continuation(initial_header_template, full_hpack_block, peer_max_frame_size, is_push_promise, promised_stream_id_if_push) ==
    HeaderSequence(initial_header_template,
                   IF is_push_promise
                   THEN write_uint32_big_endian(<<0, promised_stream_id_if_push>>)
                   ELSE <<>>,
                   full_hpack_block,
                   FirstChunkSize(Len(full_hpack_block), peer_max_frame_size,
                                  IF is_push_promise THEN 4 ELSE 0),
                   peer_max_frame_size)

(* Http2Parser over octets *)
\* The parser with the members of its connection context that it uses and
\* its HpackDecoder.  delivered, deliveries and total_consumed_bytes belong
\* to the running call: the frames passed to frame_callback_, where each lay
\* in the stream (ghost), and the local counter of Http2Parser::parse.  base
\* is the number of octets erased from buffer_ so far (ghost).
\* pending_frame_header_ is not kept: whenever current_state_ is
\* READING_FRAME_PAYLOAD it is the header in the first nine octets of buffer_.
Http2Parser ==
    [buffer_ |-> <<>>, current_state_ |-> "READING_FRAME_HEADER",
     remote_settings_ |-> ConnectionSettings,
     expected_continuation_stream_id_ |-> NoStream,
     header_block_buffer_ |-> <<>>,
     pending_header_initiator_frame_ |-> NoFrame,
     hpack_decoder_ |-> HpackDecoder(DEFAULT_DYNAMIC_TABLE_SIZE),
     delivered |-> <<>>, deliveries |-> <<>>, total_consumed_bytes |-> 0, base |-> 0]

read_uint16_big_endian(buffer, offset) == 256 * buffer[offset + 1] + buffer[offset + 2]

read_uint24_big_endian(buffer, offset) ==
    65536 * buffer[offset + 1] + 256 * buffer[offset + 2] + buffer[offset + 3]

\* the pair <<bit 31, low 31 bits>>
read_uint32_big_endian(buffer, offset) ==
    <<buffer[offset + 1] \div 128,
      16777216 * (buffer[offset + 1] % 128) + 65536 * buffer[offset + 2]
          + 256 * buffer[offset + 3] + buffer[offset + 4]>>

\* data has at least nine octets
read_frame_header(data) ==
    FrameHeader(read_uint24_big_endian(data, 0), data[4], data[5],
                read_uint32_big_endian(data, 5)[2])

\* every Http2Parser::parse_*_payload: the triple <<frame, ParserError, parser>>
ParsedData(p, frame, payload, current_offset) ==
    IF frame.pad_length[1] > Len(payload) - current_offset
    THEN <<frame, "INVALID_PADDING", p>>
    ELSE <<[frame EXCEPT !.data =
                SubSeq(payload, current_offset + 1, Len(payload) - frame.pad_length[1])],
           "OK", p>>

Http2Parser_parse_data_payload(p, header, payload) ==
    IF header.stream_id = 0 THEN <<AnyHttp2Frame(header), "INVALID_STREAM_ID", p>>
    ELSE IF HasFlag(header.flags, PADDED_FLAG)
    THEN IF payload = <<>> THEN <<AnyHttp2Frame(header), "INVALID_PADDING", p>>
         ELSE ParsedData(p, [AnyHttp2Frame(header) EXCEPT !.pad_length = <<payload[1]>>],
                         payload, 1)
    ELSE ParsedData(p, [AnyHttp2Frame(header) EXCEPT !.pad_length = <<0>>], payload, 0)

\* the end of parse_headers_payload: the fragment goes to the header block
\* buffer of the context; with END_HEADERS the block is decoded
DecodedHeaders(p, frame, decoded) ==
    IF decoded.error # "OK"
    THEN <<frame, "HPACK_DECOMPRESSION_FAILED",
           finish_continuation([p EXCEPT !.hpack_decoder_ = decoded.decoder])>>
    ELSE <<[frame EXCEPT !.headers = decoded.headers], "OK",
           finish_continuation([p EXCEPT !.hpack_decoder_ = decoded.decoder])>>

BufferedHeaders(p, frame) ==
    IF HasFlag(frame.header.flags, END_HEADERS_FLAG)
    THEN DecodedHeaders(p, frame, decode(p.hpack_decoder_, p.header_block_buffer_))
    ELSE <<frame, "OK", expect_continuation_for_stream(p, frame.header.stream_id, frame)>>

HeadersFragment(p, frame, hpack_payload) ==
    BufferedHeaders(
        [p EXCEPT !.header_block_buffer_ =
            (IF \/ ~is_expecting_continuation(p)
                \/ frame.header.stream_id # get_expected_continuation_stream_id(p)
             THEN <<>> ELSE @) \o hpack_payload],
        frame)

\* after the priority fields: header_block_fragment_len < 0 is INVALID_PADDING
HeadersAfterPriority(p, frame, payload, current_offset) ==
    IF Len(payload) - current_offset - value_or(frame.pad_length, 0) < 0
    THEN <<frame, "INVALID_PADDING", p>>
    ELSE HeadersFragment(p, frame,
             SubSeq(payload, current_offset + 1,
                    Len(payload) - value_or(frame.pad_length, 0)))

HeadersAfterPadLength(p, frame, payload, current_offset) ==
    IF HasFlag(frame.header.flags, PRIORITY_FLAG)
    THEN IF Len(payload) - current_offset < 5
         THEN <<frame, "INVALID_PRIORITY_DATA", p>>
         ELSE HeadersAfterPriority(p,
                  [frame EXCEPT
                      !.exclusive_dependency =
                          <<read_uint32_big_endian(payload, current_offset)[1] = 1>>,
                      !.stream_dependency =
                          <<read_uint32_big_endian(payload, current_offset)[2]>>,
                      !.weight = <<payload[current_offset + 5]>>],
                  payload, current_offset + 5)
    ELSE HeadersAfterPriority(p, frame, payload, current_offset)

Http2Parser_parse_headers_payload(p, header, payload) ==
    IF header.stream_id = 0 THEN <<AnyHttp2Frame(header), "INVALID_STREAM_ID", p>>
    ELSE IF HasFlag(header.flags, PADDED_FLAG)
    THEN IF payload = <<>> THEN <<AnyHttp2Frame(header), "INVALID_PADDING", p>>
         ELSE IF payload[1] > Len(payload) - 1
         THEN <<[AnyHttp2Frame(header) EXCEPT !.pad_length = <<payload[1]>>],
                "INVALID_PADDING", p>>
         ELSE HeadersAfterPadLength(p,
                  [AnyHttp2Frame(header) EXCEPT !.pad_length = <<payload[1]>>],
                  payload, 1)
    ELSE HeadersAfterPadLength(p, AnyHttp2Frame(header), payload, 0)

Http2Parser_parse_priority_payload(p, header, payload) ==
    IF Len(payload) # 5 THEN <<AnyHttp2Frame(header), "INVALID_FRAME_SIZE", p>>
    ELSE <<[AnyHttp2Frame(header) EXCEPT
               !.exclusive_dependency = <<payload[1] >= 128>>,
               !.stream_dependency = <<read_uint32_big_endian(payload, 0)[2]>>,
               !.weight = <<payload[5]>>],
           "OK", p>>

Http2Parser_parse_rst_stream_payload(p, header, payload) ==
    IF Len(payload) # 4 THEN <<AnyHttp2Frame(header), "INVALID_FRAME_SIZE", p>>
    ELSE <<[AnyHttp2Frame(header) EXCEPT
               !.error_code = read_uint32_big_endian(payload, 0)],
           "OK", p>>

Http2Parser_parse_settings_payload(p, header, payload) ==
    IF header.stream_id # 0 THEN <<AnyHttp2Frame(header), "INVALID_STREAM_ID", p>>
    ELSE IF HasFlag(header.flags, ACK_FLAG)
    THEN IF header.length # 0 THEN <<AnyHttp2Frame(header), "INVALID_FRAME_SIZE", p>>
         ELSE <<AnyHttp2Frame(header), "OK", p>>
    ELSE IF header.length % 6 # 0
    THEN <<AnyHttp2Frame(header), "INVALID_FRAME_SIZE", p>>
    ELSE <<[AnyHttp2Frame(header) EXCEPT
               !.settings =
                   [i \in 1..(header.length \div 6) |->
                       [identifier |-> read_uint16_big_endian(payload, 6 * (i - 1)),
                        value |-> read_uint32_big_endian(payload, 6 * (i - 1) + 2)]]],
           "OK", p>>

\* only the promised stream id is read: the rest of the payload is left alone
Http2Parser_parse_push_promise_payload(p, header, payload) ==
    IF Len(payload) < 4 THEN <<AnyHttp2Frame(header), "INVALID_FRAME_SIZE", p>>
    ELSE <<[AnyHttp2Frame(header) EXCEPT
               !.promised_stream_id = read_uint32_big_endian(payload, 0)[2]],
           "OK", p>>

Http2Parser_parse_ping_payload(p, header, payload) ==
    IF Len(payload) # 8 THEN <<AnyHttp2Frame(header), "INVALID_FRAME_SIZE", p>>
    ELSE <<[AnyHttp2Frame(header) EXCEPT !.opaque_data = payload], "OK", p>>

Http2Parser_parse_goaway_payload(p, header, payload) ==
    IF Len(payload) < 8 THEN <<AnyHttp2Frame(header), "INVALID_FRAME_SIZE", p>>
    ELSE <<[AnyHttp2Frame(header) EXCEPT
               !.last_stream_id = read_uint32_big_endian(payload, 0)[2],
               !.error_code = read_uint32_big_endian(payload, 4),
               !.additional_debug_data = SubSeq(payload, 9, Len(payload))],
           "OK", p>>

Http2Parser_parse_window_update_payload(p, header, payload) ==
    IF Len(payload) # 4 THEN <<AnyHttp2Frame(header), "INVALID_FRAME_SIZE", p>>
    ELSE IF read_uint32_big_endian(payload, 0)[2] = 0
    THEN <<AnyHttp2Frame(header), "INVALID_WINDOW_UPDATE_INCREMENT", p>>
    ELSE <<[AnyHttp2Frame(header) EXCEPT
               !.window_size_increment = read_uint32_big_endian(payload, 0)[2]],
           "OK", p>>

\* with END_HEADERS: decoded is the result of decode on the header block buffer
DecodedContinuation(p, frame, decoded) ==
    IF decoded.error # "OK"
    THEN <<[frame EXCEPT !.header_block_fragment = <<>>],
           "HPACK_DECOMPRESSION_FAILED", [p EXCEPT !.hpack_decoder_ = decoded.decoder]>>
    ELSE <<frame, "OK",
           finish_continuation(
               populate_pending_headers([p EXCEPT !.hpack_decoder_ = decoded.decoder],
                                        decoded.headers))>>

BufferedContinuation(p, frame) ==
    IF HasFlag(frame.header.flags, END_HEADERS_FLAG)
    THEN DecodedContinuation(p, frame, decode(p.hpack_decoder_, p.header_block_buffer_))
    ELSE <<frame, "OK", p>>

Http2Parser_parse_continuation_payload(p, header, payload) ==
    IF ~is_expecting_continuation(p)
    THEN <<AnyHttp2Frame(header), "PROTOCOL_ERROR", p>>
    ELSE IF header.stream_id # get_expected_continuation_stream_id(p)
    THEN <<AnyHttp2Frame(header), "CONTINUATION_WRONG_STREAM", p>>
    ELSE IF header.stream_id = 0
    THEN <<AnyHttp2Frame(header), "INVALID_STREAM_ID", p>>
    ELSE BufferedContinuation(
             [p EXCEPT !.header_block_buffer_ = @ \o payload],
             [AnyHttp2Frame(header) EXCEPT !.header_block_fragment = payload])

\* the switch of Http2Parser::parse; the default case builds an UnknownFrame
Http2Parser_ParsePayload(p, header, payload) ==
    CASE header.type = FrameType.DATA -> Http2Parser_parse_data_payload(p, header, payload)
      [] header.type = FrameType.HEADERS ->
            Http2Parser_parse_headers_payload(p, header, payload)
      [] header.type = FrameType.PRIORITY ->
            Http2Parser_parse_priority_payload(p, header, payload)
      [] header.type = FrameType.RST_STREAM ->
            Http2Parser_parse_rst_stream_payload(p, header, payload)
      [] header.type = FrameType.SETTINGS ->
            Http2Parser_parse_settings_payload(p, header, payload)
      [] header.type = FrameType.PUSH_PROMISE ->
            Http2Parser_parse_push_promise_payload(p, header, payload)
      [] header.type = FrameType.PING -> Http2Parser_parse_ping_payload(p, header, payload)
      [] header.type = FrameType.GOAWAY ->
            Http2Parser_parse_goaway_payload(p, header, payload)
      [] header.type = FrameType.WINDOW_UPDATE ->
            Http2Parser_parse_window_update_payload(p, header, payload)
      [] header.type = FrameType.CONTINUATION ->
            Http2Parser_parse_continuation_payload(p, header, payload)
      [] OTHER -> <<[AnyHttp2Frame(header) EXCEPT !.payload = payload],
                    "INVALID_FRAME_TYPE", p>>

\* frame_callback_ is called when the payload parsed, and in the default case
\* of the switch; r is <<frame, ParserError, parser>>
Http2Parser_InvokeFrameCallback(r, header) ==
    IF r[2] = "OK" \/ header.type \notin 0..9
    THEN <<r[2], [r[3] EXCEPT
                     !.delivered = Append(@, r[1]),
                     !.deliveries = Append(@, [at |-> r[3].base,
                                               size |-> 9 + header.length])]>>
    ELSE <<r[2], r[3]>>

\* what Http2Parser::parse returns, with the parser it leaves
ParseResult(p, consumed, error) == [p |-> p, consumed |-> consumed, error |-> error]

RECURSIVE Http2Parser_parse_loop(_, _)

\* after the dispatch, d its result <<ParserError, parser>>: an error returns
\* total_consumed_bytes with the frame still in buffer_; otherwise the frame
\* is erased and the loop goes on
Http2Parser_ParseLoopTail(d, size, frame_total_size) ==
    IF d[1] # "OK"
    THEN ParseResult(d[2], d[2].total_consumed_bytes, d[1])
    ELSE Http2Parser_parse_loop(
             [d[2] EXCEPT
                 !.buffer_ = SubSeq(@, frame_total_size + 1, Len(@)),
                 !.total_consumed_bytes = @ + frame_total_size,
                 !.base = @ + frame_total_size,
                 !.current_state_ = "READING_FRAME_HEADER"],
             size)

\* the frame at the head of buffer_, header its frame header
Http2Parser_ParseFrame(p, size, header) ==
    IF /\ p.current_state_ = "READING_FRAME_HEADER"
       /\ FrameSizeLimitExceeded(p, header)
    THEN ParseResult(p, p.total_consumed_bytes, "FRAME_SIZE_LIMIT_EXCEEDED")
    ELSE IF Len(p.buffer_) < 9 + header.length
    THEN ParseResult([p EXCEPT !.current_state_ = "READING_FRAME_PAYLOAD"], size, "OK")
    ELSE Http2Parser_ParseLoopTail(
             Http2Parser_InvokeFrameCallback(
                 Http2Parser_ParsePayload(
                     [p EXCEPT !.current_state_ = "READING_FRAME_PAYLOAD"], header,
                     SubSeq(p.buffer_, 10, 9 + header.length)),
                 header),
             size, 9 + header.length)

\* the while loop of Http2Parser::parse; size is data.size(), which the
\* function returns when the loop ends by a break
Http2Parser_parse_loop(p, size) ==
    IF p.current_state_ = "READING_FRAME_HEADER" /\ Len(p.buffer_) < 9
    THEN ParseResult(p, size, "OK")
    ELSE Http2Parser_ParseFrame(p, size, read_frame_header(p.buffer_))

\* Http2Parser::parse(data)
Http2Parser_parse(p, data) ==
    Http2Parser_parse_loop(
        [p EXCEPT !.buffer_ = @ \o data, !.delivered = <<>>, !.deliveries = <<>>,
                  !.total_consumed_bytes = 0],
        Len(data))

\* the calls on the serializer and on parser_: size is data.size(), consumed
\* and error what parse returned, delivered the frames it passed to
\* frame_callback_, sequence the frames of a serialized header block
WireCall(op) ==
    [op |-> op, size |-> 0, consumed |-> 0, error |-> "OK", delivered |-> <<>>,
     sequence |-> <<>>]

(* ------------------------------ inputs --------------------------------- *)
StreamIds == 1..MaxStreamId

\* DATA sizes fed to the engine: empty, small, one octet above the default
\* maximum frame size
RecvDataSizes == {0, 5}
OversizeData == DEFAULT_MAX_FRAME_SIZE + 1
\* a padded DATA frame: octets of data, octets of padding
PaddedData == 5
Padding == 2
\* header-block fragments: index 2 (:method GET); index 0 (invalid)
GoodFragment == <<130>>
BadFragment == <<128>>
\* WINDOW_UPDATE increments
Increments == {5, MAX_ALLOWED_WINDOW_SIZE}
\* increments passed to send_window_update_action
SentIncrements == {0, MAX_ALLOWED_WINDOW_SIZE}
\* SETTINGS entries
SmallWindow == 3
RecvSettings ==
    {[id |-> SETTINGS_INITIAL_WINDOW_SIZE, hi |-> 0, lo |-> SmallWindow],
     [id |-> SETTINGS_INITIAL_WINDOW_SIZE, hi |-> 0, lo |-> DEFAULT_INITIAL_WINDOW_SIZE],
     [id |-> SETTINGS_INITIAL_WINDOW_SIZE, hi |-> 0, lo |-> MAX_ALLOWED_WINDOW_SIZE],
     [id |-> SETTINGS_INITIAL_WINDOW_SIZE, hi |-> 1, lo |-> 0],
     [id |-> SETTINGS_MAX_FRAME_SIZE, hi |-> 0, lo |-> SmallWindow],
     [id |-> SETTINGS_ENABLE_PUSH, hi |-> 0, lo |-> 2]}
\* send_data sizes: empty, small, two frames within the initial window, more
\* than the initial window
SendDataSizes == {0, 5, 20000, 70000}

RecvFrames ==
       {DataFrame(sid, n, es) : sid \in 0..MaxStreamId, n \in RecvDataSizes, es \in BOOLEAN}
  \cup {DataFrame(1, OversizeData, FALSE)}
  \cup {PaddedDataFrame(1, PaddedData, Padding, FALSE)}
  \cup {HeadersFrame(sid, GoodFragment, es, eh) :
            sid \in 0..MaxStreamId, es \in BOOLEAN, eh \in BOOLEAN}
  \cup {HeadersFrame(1, BadFragment, FALSE, TRUE)}
  \cup {PriorityFrame(sid) : sid \in 0..MaxStreamId}
  \cup {RstStreamFrame(sid) : sid \in 0..MaxStreamId}
  \cup {SettingsFrame(TRUE, <<>>)}
  \cup {SettingsFrame(FALSE, <<e>>) : e \in RecvSettings}
  \cup {PushPromiseFrame(1, promised, GoodFragment, eh) :
            promised \in StreamIds \ {1}, eh \in BOOLEAN}
  \cup {PingFrame(ack) : ack \in BOOLEAN}
  \cup {GoAwayFrame}
  \cup {WindowUpdateFrame(sid, inc) : sid \in 0..MaxStreamId, inc \in Increments}
  \cup {WindowUpdateFrame(sid, 0) : sid \in {0, 1}}
  \cup {ContinuationFrame(sid, GoodFragment, eh) : sid \in StreamIds, eh \in BOOLEAN}
  \cup {ContinuationFrame(1, BadFragment, TRUE)}
  \cup {UnknownFrame(0)}

(* ------------------------------ history -------------------------------- *)
\* saturating sum, so that the history of increments stays a 32-bit value
SatAdd(a, b) == IF b > MAX_ALLOWED_WINDOW_SIZE - a THEN MAX_ALLOWED_WINDOW_SIZE ELSE a + b

DataBytes(outs, sid) ==
    LET idx == {i \in 1..Len(outs) : outs[i].kind = "DATA" /\ outs[i].sid = sid}
        RECURSIVE Sum(_)
        Sum(S) == IF S = {} THEN 0
                  ELSE LET i == CHOOSE j \in S : TRUE IN outs[i].n + Sum(S \ {i})
    IN Sum(idx)

AllDataBytes(outs) ==
    LET idx == {i \in 1..Len(outs) : outs[i].kind = "DATA"}
        RECURSIVE Sum(_)
        Sum(S) == IF S = {} THEN 0
                  ELSE LET i == CHOOSE j \in S : TRUE IN outs[i].n + Sum(S \ {i})
    IN Sum(idx)

InRange(seq, x) == \E i \in 1..Len(seq) : seq[i] = x

\* the history after a call that started in connection c0 (the current
\* state) and ended in c1, having delivered frame (NoFrame for a send call)
NextHist(c1, frame) ==
    LET wuFrame == frame.type = "WINDOW_UPDATE" /\ InRange(c1.delivered, frame) IN
    [everClosed |-> hist.everClosed \cup c1.closed,
     recvCreated |-> hist.recvCreated
                     \cup (IF frame.type = "NONE" THEN {} ELSE c1.created),
     sendCreated |-> hist.sendCreated
                     \cup (IF frame.type = "NONE" THEN c1.created ELSE {}),
     sent |-> [id \in StreamIds |-> hist.sent[id] + DataBytes(c1.out, id)],
     connSent |-> hist.connSent + AllDataBytes(c1.out),
     wu |-> [id \in StreamIds |->
                IF wuFrame /\ frame.sid = id THEN SatAdd(hist.wu[id], frame.n)
                ELSE hist.wu[id]],
     connWu |-> IF wuFrame /\ frame.sid = 0 THEN SatAdd(hist.connWu, frame.n)
                ELSE hist.connWu,
     peerWindow |-> [id \in StreamIds |->
                IF id \in c1.created /\ hist.peerWindow[id] = -1
                THEN remote_settings_.initial_window_size
                ELSE hist.peerWindow[id]],
     connError |-> hist.connError
                   \/ \E i \in 1..Len(c1.out) : c1.out[i].kind = "GOAWAY",
     allocated |-> 0,
     sizeExceeded |-> hist.sizeExceeded]

(* ------------------------------ actions -------------------------------- *)
\* the connection as a call finds it, kept in last.pre
Snapshot ==
    [streams_ |-> streams_,
     next_client_stream_id_ |-> next_client_stream_id_,
     last_processed_stream_id_ |-> last_processed_stream_id_,
     going_away_ |-> going_away_,
     local_settings_ |-> local_settings_,
     remote_settings_ |-> remote_settings_,
     local_connection_window_size_ |-> local_connection_window_size_,
     remote_connection_window_size_ |-> remote_connection_window_size_,
     expected_continuation_stream_id_ |-> expected_continuation_stream_id_,
     header_block_buffer_ |-> header_block_buffer_,
     pending_header_initiator_frame_ |-> pending_header_initiator_frame_,
     buffer_ |-> buffer_,
     everClosed |-> hist.everClosed,
     recvCreated |-> hist.recvCreated,
     sendCreated |-> hist.sendCreated,
     connError |-> hist.connError,
     allocated |-> hist.allocated,
     sizeExceeded |-> hist.sizeExceeded]

Commit(c1, op, frame, sid, n, es, error, result, buf, pstate) ==
    /\ streams_' = c1.streams_
    /\ next_client_stream_id_' = c1.next_client_stream_id_
    /\ last_processed_stream_id_' = c1.last_processed_stream_id_
    /\ going_away_' = c1.going_away_
    /\ local_settings_' = c1.local_settings_
    /\ remote_settings_' = c1.remote_settings_
    /\ local_connection_window_size_' = c1.local_connection_window_size_
    /\ remote_connection_window_size_' = c1.remote_connection_window_size_
    /\ expected_continuation_stream_id_' = c1.expected_continuation_stream_id_
    /\ header_block_buffer_' = c1.header_block_buffer_
    /\ pending_header_initiator_frame_' = c1.pending_header_initiator_frame_
    /\ buffer_' = buf
    /\ current_state_' = pstate
    /\ out' = c1.out
    /\ delivered' = c1.delivered
    /\ last' = [op |-> op, frame |-> frame, sid |-> sid, n |-> n, es |-> es,
                error |-> error, result |-> result, viol |-> c1.viol,
                closed |-> c1.closed, created |-> c1.created,
                segments |-> c1.segments, pre |-> Snapshot]
    /\ hist' = [NextHist(c1, frame) EXCEPT
                    !.allocated = IF op = "get_next_available_stream_id" THEN sid ELSE 0,
                    !.sizeExceeded = @ \/ error = "FRAME_SIZE_LIMIT_EXCEEDED"]
    /\ steps' = steps + 1
    /\ UNCHANGED <<is_server_, hpackVars, wireVars>>

CommitReceive(r, frame) ==
    Commit(r.c, "process_incoming_data", frame, frame.sid, frame.n, frame.es,
           r.error, r.error = "OK", r.buffer_, r.current_state_)

CommitSend(r, op, sid, n, es) ==
    Commit(r[1], op, NoFrame, sid, n, es,
           IF r[1].threw THEN "EXCEPTION" ELSE "OK", r[2], buffer_, current_state_)

\* the caller feeds the bytes of one frame to process_incoming_data
Receive(frame) ==
    /\ steps < MaxSteps
    /\ Len(buffer_) < MaxBuffered
    /\ CommitReceive(process_incoming_data(Conn, buffer_, current_state_, <<frame>>),
                     frame)

SendData(stream_id, size, end_stream) ==
    /\ steps < MaxSteps
    /\ CommitSend(send_data(Conn, stream_id, size, end_stream),
                  "send_data", stream_id, size, end_stream)

SendHeaders(stream_id, end_stream) ==
    /\ steps < MaxSteps
    /\ CommitSend(send_headers(Conn, stream_id, end_stream),
                  "send_headers", stream_id, 0, end_stream)

SendPushPromise(associated_stream_id, promised_stream_id) ==
    /\ steps < MaxSteps
    /\ CommitSend(send_push_promise(Conn, associated_stream_id, promised_stream_id),
                  "send_push_promise", associated_stream_id, promised_stream_id, FALSE)

SendRstStream(stream_id) ==
    /\ steps < MaxSteps
    /\ CommitSend(send_rst_stream_frame_action(Conn, stream_id, "CANCEL"),
                  "send_rst_stream_frame_action", stream_id, 0, FALSE)

SendWindowUpdate(stream_id, increment) ==
    /\ steps < MaxSteps
    /\ CommitSend(send_window_update_action(Conn, stream_id, increment),
                  "send_window_update_action", stream_id, increment, FALSE)

\* the caller asks for a stream id; last.sid is the id returned
GetNextAvailableStreamId ==
    /\ steps < MaxSteps
    /\ CommitSend(<<get_next_available_stream_id(Conn)[1],
                    get_next_available_stream_id(Conn)[2] # 0>>,
                  "get_next_available_stream_id",
                  get_next_available_stream_id(Conn)[2], 0, FALSE)

Init ==
    /\ is_server_ \in BOOLEAN
    /\ streams_ = <<>>
    /\ next_client_stream_id_ = 1
    /\ last_processed_stream_id_ = 0
    /\ going_away_ = FALSE
    /\ local_settings_ = ConnectionSettings
    /\ remote_settings_ = ConnectionSettings
    /\ local_connection_window_size_ = DEFAULT_INITIAL_WINDOW_SIZE
    /\ remote_connection_window_size_ = DEFAULT_INITIAL_WINDOW_SIZE
    /\ expected_continuation_stream_id_ = NoStream
    /\ header_block_buffer_ = <<>>
    /\ pending_header_initiator_frame_ = NoFrame
    /\ buffer_ = <<>>
    /\ current_state_ = "READING_FRAME_HEADER"
    /\ out = <<>>
    /\ delivered = <<>>
    /\ hist = [everClosed |-> {}, recvCreated |-> {}, sendCreated |-> {},
               sent |-> [id \in StreamIds |-> 0], connSent |-> 0,
               wu |-> [id \in StreamIds |-> 0], connWu |-> 0,
               peerWindow |-> [id \in StreamIds |-> -1],
               connError |-> FALSE, allocated |-> 0, sizeExceeded |-> FALSE]
    /\ last = [op |-> "none", frame |-> NoFrame, sid |-> 0, n |-> 0, es |-> FALSE,
               error |-> "OK", result |-> TRUE, viol |-> <<>>,
               closed |-> {}, created |-> {}, segments |-> <<>>, pre |-> Snapshot]
    /\ steps = 0
    /\ encoder = HpackEncoder(DEFAULT_DYNAMIC_TABLE_SIZE)
    /\ decoder = HpackDecoder(DEFAULT_DYNAMIC_TABLE_SIZE)
    /\ hpack_hist = [signalled |-> DEFAULT_DYNAMIC_TABLE_SIZE, paired |-> TRUE,
                     peers |-> TRUE, announced |-> FALSE]
    /\ hpack_last = [call |-> [op |-> "none", headers |-> <<>>, data |-> <<>>,
                               size |-> 0, prefix_bits |-> 0, error |-> "OK",
                               decoded |-> <<>>, value |-> <<0, 0, 0, 0>>,
                               reps |-> <<>>],
                     pre |-> [encoder |-> HpackEncoder(DEFAULT_DYNAMIC_TABLE_SIZE),
                              decoder |-> HpackDecoder(DEFAULT_DYNAMIC_TABLE_SIZE),
                              signalled |-> DEFAULT_DYNAMIC_TABLE_SIZE,
                              paired |-> TRUE, peers |-> TRUE,
                              announced |-> FALSE]]
    /\ parser_ = Http2Parser
    /\ wire = [stream |-> <<>>, fed |-> <<>>, frames |-> 0, written |-> <<>>,
               raw |-> FALSE, received |-> <<>>, deliveries |-> <<>>]
    /\ wire_last = WireCall("none")

Next ==
    \/ \E frame \in RecvFrames : Receive(frame)
    \/ \E stream_id \in StreamIds, size \in SendDataSizes, end_stream \in BOOLEAN :
           SendData(stream_id, size, end_stream)
    \/ \E stream_id \in 0..MaxStreamId, end_stream \in BOOLEAN :
           SendHeaders(stream_id, end_stream)
    \/ \E assoc \in StreamIds, promised \in StreamIds : SendPushPromise(assoc, promised)
    \/ \E stream_id \in StreamIds : SendRstStream(stream_id)
    \/ \E stream_id \in {0, 1}, increment \in SentIncrements :
           SendWindowUpdate(stream_id, increment)
    \/ GetNextAvailableStreamId

Spec == Init /\ [][Next]_vars

(* ------------------------- the codecs on their own ---------------------- *)
\* header lists given to the encoder: a static-table entry, headers named x
\* with short values (aaa and aaaaa are shorter Huffman-coded), one sensitive
HeaderGet == HttpHeader(<<58, 109, 101, 116, 104, 111, 100>>, <<71, 69, 84>>, FALSE)
HeaderX(value, sensitive) == HttpHeader(<<120>>, value, sensitive)

HeaderLists ==
    {<<HeaderGet>>, <<HeaderX(<<49>>, FALSE)>>, <<HeaderX(<<50>>, FALSE)>>,
     <<HeaderX(<<97, 97, 97>>, FALSE)>>, <<HeaderX(<<97, 97, 97, 97, 97>>, FALSE)>>,
     <<HeaderX(<<49>>, TRUE)>>,
     <<HeaderX(<<49>>, FALSE), HeaderX(<<50>>, FALSE)>>,
     <<HeaderGet, HeaderX(<<97, 97, 97, 97, 97>>, FALSE)>>}

\* table capacities the owner sets: none, room for one entry, the default
Capacities == {0, 40, DEFAULT_DYNAMIC_TABLE_SIZE}

\* a block that is one Dynamic Table Size Update
SizeUpdateBlock(size) == encode_integer(32, 5, size)
SizeUpdates == {0, 40, DEFAULT_DYNAMIC_TABLE_SIZE, DEFAULT_DYNAMIC_TABLE_SIZE + 1}

\* blocks given to the decoder: size updates, x: 1 with incremental
\* indexing, the newest dynamic entry, index 0
Blocks ==
    {SizeUpdateBlock(size) : size \in SizeUpdates}
        \cup {<<64, 1, 120, 1, 49>>, <<190>>, <<128>>}

\* an integer whose prefix is full, followed by run continuation octets and a
\* last octet
RECURSIVE Repeat(_, _)
Repeat(octet, n) == IF n = 0 THEN <<>> ELSE <<octet>> \o Repeat(octet, n - 1)

MaxRun == 11
IntegerInputs ==
    {<<255>> \o Repeat(octet, run) \o <<final>> :
        octet \in {128, 255}, run \in 0..MaxRun, final \in {0, 1, 2}}
        \cup {<<5>>, <<127>>}

\* the codecs as a call finds them, kept in hpack_last.pre
HpackSnapshot ==
    [encoder |-> encoder, decoder |-> decoder,
     signalled |-> hpack_hist.signalled, paired |-> hpack_hist.paired,
     peers |-> hpack_hist.peers, announced |-> hpack_hist.announced]

\* a call on the codecs: headers, data, size and prefix_bits are the arguments
\* (data is also the block the encoder made); error, decoded and value are
\* what decode or decode_integer returned; reps is the encoder's choices
HpackCall(op) ==
    [op |-> op, headers |-> <<>>, data |-> <<>>, size |-> 0, prefix_bits |-> 0,
     error |-> "OK", decoded |-> <<>>, value |-> <<0, 0, 0, 0>>, reps |-> <<>>]

\* signalled: the capacity the owner of the decoder gave it last; paired: the
\* decoder has been given exactly the blocks of the encoder, and neither has
\* had its capacity changed; peers: the same, but for capacity changes made
\* by a HEADER_TABLE_SIZE announcement; announced: there was one
CommitHpack(e1, d1, signalled, paired, call) ==
    /\ encoder' = e1
    /\ decoder' = d1
    /\ hpack_hist' =
        [signalled |-> signalled, paired |-> paired,
         peers |-> hpack_hist.peers
                   /\ call.op \in {"encode_decode", "decode_integer", "send_settings"},
         announced |-> hpack_hist.announced \/ call.op = "send_settings"]
    /\ hpack_last' = [call |-> call, pre |-> HpackSnapshot]
    /\ steps' = steps + 1
    /\ UNCHANGED <<connVars, buffer_, current_state_, out, delivered, last, hist,
                   wireVars>>

CommitEncodeDecode(headers, encoded, decoded) ==
    CommitHpack(encoded.encoder, decoded.decoder,
                hpack_hist.signalled, hpack_hist.paired,
                [HpackCall("encode_decode") EXCEPT
                    !.headers = headers, !.data = encoded.bytes,
                    !.reps = encoded.reps,
                    !.error = decoded.error, !.decoded = decoded.headers])

DecodeEncoded(headers, encoded) ==
    CommitEncodeDecode(headers, encoded, decode(decoder, encoded.bytes))

\* the encoder encodes a header list and the decoder decodes the block
EncodeDecode(headers) ==
    /\ steps < MaxBlocks
    /\ DecodeEncoded(headers, encode(encoder, headers))

CommitDecode(data, decoded) ==
    CommitHpack(encoder, decoded.decoder, hpack_hist.signalled, FALSE,
                [HpackCall("decode") EXCEPT
                    !.data = data, !.error = decoded.error,
                    !.decoded = decoded.headers])

\* the decoder decodes a block that did not come from the encoder
DecodeBlock(data) ==
    /\ steps < MaxBlocks
    /\ CommitDecode(data, decode(decoder, data))

\* the owner of the encoder changes its capacity
SetOwnMaxDynamicTableSize(max_size) ==
    /\ steps < MaxBlocks
    /\ CommitHpack(set_own_max_dynamic_table_size(encoder, max_size)[1], decoder,
                   hpack_hist.signalled, FALSE,
                   [HpackCall("set_own_max_dynamic_table_size") EXCEPT
                       !.size = max_size])

\* the owner of the decoder changes its capacity
SetMaxDynamicTableSize(max_size) ==
    /\ steps < MaxBlocks
    /\ CommitHpack(encoder, set_max_dynamic_table_size(decoder, max_size),
                   max_size, FALSE,
                   [HpackCall("set_max_dynamic_table_size") EXCEPT
                       !.size = max_size])

\* send_settings at the endpoint that owns the encoder (the frame is
\* serialized and handed to on_send_bytes_; its own codecs are not touched),
\* then handle_settings_frame and apply_remote_setting at the peer, which
\* owns the decoder
SendSettingsHeaderTableSize(value) ==
    /\ steps < MaxBlocks
    /\ CommitHpack(encoder, set_max_dynamic_table_size(decoder, value),
                   value, FALSE,
                   [HpackCall("send_settings") EXCEPT !.size = value])

CommitDecodeInteger(data, prefix_bits, decoded) ==
    CommitHpack(encoder, decoder, hpack_hist.signalled, hpack_hist.paired,
                [HpackCall("decode_integer") EXCEPT
                    !.data = data, !.prefix_bits = prefix_bits,
                    !.error = decoded.error,
                    !.value = SubSeq(decoded.value, 1, UInt64Limbs)])

\* decode_integer is applied to octets; the codecs are not involved
DecodeInteger(data, prefix_bits) ==
    /\ steps < MaxBlocks
    /\ CommitDecodeInteger(data, prefix_bits, decode_integer(data, prefix_bits))

NextHpack ==
    \/ \E headers \in HeaderLists : EncodeDecode(headers)
    \/ \E data \in Blocks : DecodeBlock(data)
    \/ \E max_size \in Capacities : SetOwnMaxDynamicTableSize(max_size)
    \/ \E max_size \in Capacities : SetMaxDynamicTableSize(max_size)
    \/ \E value \in Capacities : SendSettingsHeaderTableSize(value)
    \/ \E data \in IntegerInputs : DecodeInteger(data, 7)

\* the codecs do not depend on the role of the connection
InitHpack == Init /\ ~is_server_

SpecHpack == InitHpack /\ [][NextHpack]_vars

(* ------------------ the serializer and the parser on octets ------------- *)
\* The arrangement of the parser tests: parser_ with its own HpackDecoder, a
\* connection as its context and a frame callback that stores the frames.
\* Frames are serialized onto an octet stream, and the stream is fed to
\* parser_ in slices.
MaxWireFrames == 2

WireFrame(type, flags, stream_id) == AnyHttp2Frame(FrameHeader(0, type, flags, stream_id))

\* frame records given to the serializer, at least one of every type
WireFrames ==
    {[WireFrame(FrameType.DATA, 0, 1) EXCEPT !.data = <<7>>, !.pad_length = <<0>>],
     [WireFrame(FrameType.DATA, 0, 1) EXCEPT !.data = <<7>>],
     [WireFrame(FrameType.DATA, PADDED_FLAG + END_STREAM_FLAG, 1) EXCEPT
         !.data = <<7>>, !.pad_length = <<2>>],
     [WireFrame(FrameType.HEADERS, END_HEADERS_FLAG, 1) EXCEPT
         !.headers = <<HeaderX(<<49>>, FALSE)>>],
     [WireFrame(FrameType.HEADERS, END_HEADERS_FLAG + PADDED_FLAG + PRIORITY_FLAG, 3)
         EXCEPT !.headers = <<HeaderGet>>, !.pad_length = <<1>>,
                !.exclusive_dependency = <<TRUE>>, !.stream_dependency = <<1>>,
                !.weight = <<15>>],
     WireFrame(FrameType.HEADERS, 0, 1),
     [WireFrame(FrameType.PRIORITY, 0, 1) EXCEPT
         !.exclusive_dependency = <<TRUE>>, !.stream_dependency = <<3>>,
         !.weight = <<15>>],
     [WireFrame(FrameType.RST_STREAM, 0, 1) EXCEPT !.error_code = <<0, 8>>],
     [WireFrame(FrameType.SETTINGS, 0, 0) EXCEPT
         !.settings = <<[identifier |-> SETTINGS_INITIAL_WINDOW_SIZE,
                         value |-> <<0, 65535>>],
                        [identifier |-> SETTINGS_MAX_CONCURRENT_STREAMS,
                         value |-> <<1, 0>>]>>],
     WireFrame(FrameType.SETTINGS, ACK_FLAG, 0),
     [WireFrame(FrameType.PUSH_PROMISE, END_HEADERS_FLAG, 1) EXCEPT
         !.promised_stream_id = 2],
     [WireFrame(FrameType.PUSH_PROMISE, END_HEADERS_FLAG, 1) EXCEPT
         !.promised_stream_id = 2, !.headers = <<HeaderX(<<49>>, FALSE)>>],
     [WireFrame(FrameType.PING, 0, 0) EXCEPT !.opaque_data = <<1, 2, 3, 4, 5, 6, 7, 8>>],
     [WireFrame(FrameType.GOAWAY, 0, 0) EXCEPT
         !.last_stream_id = 1, !.additional_debug_data = <<100>>],
     [WireFrame(FrameType.WINDOW_UPDATE, 0, 0) EXCEPT !.window_size_increment = 1],
     [WireFrame(FrameType.CONTINUATION, END_HEADERS_FLAG, 1) EXCEPT
         !.header_block_fragment = <<130>>]}

\* construct_frame of the parser tests: a header with any length and type
construct_frame(length, type, flags, stream_id, payload) ==
    write_uint24_big_endian(length) \o <<type, flags>>
        \o write_uint32_big_endian(<<0, stream_id>>) \o payload

\* a frame of a type the parser does not know, and the header of a DATA frame
\* one octet above the peer's max_frame_size
RawFrames ==
    {construct_frame(0, 10, 0, 1, <<>>),
     construct_frame(DEFAULT_MAX_FRAME_SIZE + 1, FrameType.DATA, 0, 1, <<>>)}

\* header blocks of 0 and of 8 octets, cut for a peer that takes 3 octets a
\* frame and for one that takes the default
BlockHeaderLists == {<<>>, <<HeaderX(<<49>>, FALSE), HeaderX(<<50>>, FALSE)>>}
PeerMaxFrameSizes == {3, DEFAULT_MAX_FRAME_SIZE}

RECURSIVE Concat(_)
Concat(seqs) == IF seqs = <<>> THEN <<>> ELSE Head(seqs) \o Concat(Tail(seqs))

CommitWire(e1, p1, w1, call) ==
    /\ encoder' = e1
    /\ parser_' = p1
    /\ wire' = w1
    /\ wire_last' = call
    /\ UNCHANGED <<connVars, buffer_, current_state_, out, delivered, last, hist, steps,
                   decoder, hpack_last, hpack_hist>>

\* s is the serializer's result [bytes, encoder]
CommitSerialize(s, frame) ==
    CommitWire(s.encoder, parser_,
               [wire EXCEPT !.stream = @ \o s.bytes, !.frames = @ + 1,
                            !.written = Append(@, [frame EXCEPT
                                                      !.header.length = Len(s.bytes) - 9])],
               [WireCall("serialize") EXCEPT !.sequence = <<s.bytes>>])

\* a frame record is serialized onto the stream
SerializeFrame(frame) ==
    /\ wire.frames < MaxWireFrames
    /\ CommitSerialize(Serialize(frame, encoder), frame)

\* octets that did not come from a frame record are put onto the stream
WriteRaw(bytes) ==
    /\ wire.frames < MaxWireFrames
    /\ CommitWire(encoder, parser_,
                  [wire EXCEPT !.stream = @ \o bytes, !.frames = @ + 1, !.raw = TRUE],
                  [WireCall("construct_frame") EXCEPT !.sequence = <<bytes>>])

\* encoded is the encoder's result, sequence the serializer's
CommitHeaderBlock(encoded, sequence) ==
    CommitWire(encoded.encoder, parser_,
               [wire EXCEPT
                   !.stream = @ \o sequence.headers_frame_bytes
                                \o Concat(sequence.continuation_frames_bytes),
                   !.frames = @ + 1 + Len(sequence.continuation_frames_bytes),
                   !.raw = TRUE],
               [WireCall("serialize_header_block_with_continuation") EXCEPT
                   !.sequence = <<sequence.headers_frame_bytes>>
                                    \o sequence.continuation_frames_bytes])

EncodedHeaderBlock(encoded, initial_header_template, peer_max_frame_size, is_push_promise) ==
    CommitHeaderBlock(encoded,
        serialize_header_block_with_continuation(
            initial_header_template, encoded.bytes, peer_max_frame_size,
            is_push_promise, 2))

\* a header block is serialized onto the stream as HEADERS or PUSH_PROMISE
\* on stream 1, followed by its CONTINUATION frames
SerializeHeaderBlock(headers, peer_max_frame_size, is_push_promise) ==
    /\ wire.frames < MaxWireFrames
    /\ EncodedHeaderBlock(
           encode(encoder, headers),
           FrameHeader(0, IF is_push_promise THEN FrameType.PUSH_PROMISE
                          ELSE FrameType.HEADERS,
                       END_HEADERS_FLAG, 1),
           peer_max_frame_size, is_push_promise)

\* r is the result of Http2Parser::parse on the slice
CommitFeed(r, data) ==
    CommitWire(encoder,
               [r.p EXCEPT !.delivered = <<>>, !.deliveries = <<>>,
                           !.total_consumed_bytes = 0],
               [wire EXCEPT !.stream = SubSeq(@, Len(data) + 1, Len(@)),
                            !.fed = @ \o data,
                            !.received = @ \o r.p.delivered,
                            !.deliveries = @ \o r.p.deliveries],
               [WireCall("parse") EXCEPT
                   !.size = Len(data), !.consumed = r.consumed, !.error = r.error,
                   !.delivered = r.p.delivered])

\* the next size octets of the stream are given to parser_ in one call
Feed(size) ==
    /\ size <= Len(wire.stream)
    /\ CommitFeed(Http2Parser_parse(parser_, SubSeq(wire.stream, 1, size)),
                  SubSeq(wire.stream, 1, size))

MaxSlice == 40

NextWire ==
    \/ \E frame \in WireFrames : SerializeFrame(frame)
    \/ \E bytes \in RawFrames : WriteRaw(bytes)
    \/ \E headers \in BlockHeaderLists, peer_max_frame_size \in PeerMaxFrameSizes,
          is_push_promise \in BOOLEAN :
           SerializeHeaderBlock(headers, peer_max_frame_size, is_push_promise)
    \/ \E size \in 1..MaxSlice : Feed(size)

InitWire == Init /\ is_server_

SpecWire == InitWire /\ [][NextWire]_vars



TypeOK ==
    /\ DOMAIN streams_ \subseteq StreamIds
    /\ \A id \in DOMAIN streams_ : streams_[id].state_ \in StreamState
    /\ steps \in 0..MaxSteps


(* --------------------------- derived notions --------------------------- *)
\* what the last call emitted and what it handed to the frame callback
NewOut == out
NewDelivered == delivered

Emitted(kind) == \E i \in 1..Len(NewOut) : NewOut[i].kind = kind
EmittedWith(kind, sid, code) ==
    \E i \in 1..Len(NewOut) :
        NewOut[i].kind = kind /\ NewOut[i].sid = sid /\ NewOut[i].code = code

\* the last call was process_incoming_data with nothing left over from earlier
\* calls, so that the frame it was given is the frame the parser dispatched
Received == last.op = "process_incoming_data" /\ last.pre.buffer_ = <<>>


(* ------------------------------- claims -------------------------------- *)
AwaitingContinuation == last.pre.expected_continuation_stream_id_ # NoStream

ContinuationOfPendingBlock ==
    /\ last.frame.type = "CONTINUATION"
    /\ last.frame.sid = last.pre.expected_continuation_stream_id_

GoAwayEmitted(code) ==
    \E i \in 1..Len(NewOut) : NewOut[i].kind = "GOAWAY" /\ NewOut[i].code = code

\* C1: while a header block on stream S awaits its CONTINUATION, every received
\* frame that is not a CONTINUATION on S is rejected as a connection-level
\* protocol error: the call reports an error, GOAWAY(PROTOCOL_ERROR) goes out
\* and the frame does not reach the frame callback.
C1_InterleavedFrameRejected ==
    (Received /\ AwaitingContinuation /\ ~ContinuationOfPendingBlock)
        => /\ last.error # "OK"
           /\ GoAwayEmitted("PROTOCOL_ERROR")
           /\ NewDelivered = <<>>


\* C2: the DATA octets sent on a stream never exceed the stream's initial send
\* window (the peer's INITIAL_WINDOW_SIZE when the stream was created) plus the
\* WINDOW_UPDATE increments received for the stream, and the DATA octets sent
\* on the connection never exceed 65535 plus the increments received for
\* stream 0.
C2_SentWithinCredit ==
    /\ \A id \in StreamIds :
           hist.peerWindow[id] # -1
               => hist.sent[id] <= SatAdd(hist.peerWindow[id], hist.wu[id])
    /\ hist.connSent <= SatAdd(DEFAULT_INITIAL_WINDOW_SIZE, hist.connWu)


SendCall == last.op \in {"send_data", "send_headers", "send_push_promise",
                         "send_rst_stream_frame_action", "send_window_update_action"}

\* C3: once a stream has entered CLOSED, a frame received on its id other than
\* PRIORITY is refused with the stream error STREAM_CLOSED (RST_STREAM goes out
\* and the id has no live stream afterwards), and no call sends a frame other
\* than PRIORITY on that id.  RST_STREAM and WINDOW_UPDATE, which a peer may
\* have sent before it saw the stream close, are left out of the statement.
C3_ClosedStreamStaysClosed ==
    \A id \in last.pre.everClosed :
        /\ (/\ Received
            /\ last.frame.sid = id
            /\ last.frame.type \notin {"PRIORITY", "RST_STREAM", "WINDOW_UPDATE"})
               => /\ EmittedWith("RST_STREAM", id, "STREAM_CLOSED")
                  /\ id \notin DOMAIN streams_
        /\ SendCall
               => \A i \in 1..Len(out) : out[i].sid = id => out[i].kind = "PRIORITY"


\* the state of stream id as the engine holds it: a stream absent from
\* streams_ and not erased by this call is IDLE, an erased one CLOSED
StateBefore(id) ==
    IF id \in DOMAIN last.pre.streams_ THEN last.pre.streams_[id].state_ ELSE "IDLE"

StateAfter(id) ==
    IF id \in DOMAIN streams_ THEN streams_[id].state_
    ELSE IF id \in last.closed THEN "CLOSED"
    ELSE IF id \in DOMAIN last.pre.streams_ \/ id \in last.created THEN "CLOSED"
    ELSE "IDLE"

\* the frames of the last call that bear on stream id
RecvOn(id, types) ==
    \E i \in 1..Len(delivered) : delivered[i].type \in types /\ delivered[i].sid = id
RecvEndStreamOn(id) ==
    \E i \in 1..Len(delivered) :
        delivered[i].type \in {"DATA", "HEADERS"} /\ delivered[i].sid = id /\ delivered[i].es
RecvPromiseOf(id) ==
    \E i \in 1..Len(delivered) :
        delivered[i].type = "PUSH_PROMISE" /\ delivered[i].promised = id
SentOn(id, kinds) ==
    \E i \in 1..Len(out) : out[i].kind \in kinds /\ out[i].sid = id
SentEndStreamOn(id) ==
    \E i \in 1..Len(out) : out[i].kind \in {"DATA", "HEADERS"} /\ out[i].sid = id /\ out[i].es
SentPromiseOf(id) ==
    \E i \in 1..Len(out) : out[i].kind = "PUSH_PROMISE" /\ out[i].n = id
RstOn(id) ==
    RecvOn(id, {"RST_STREAM"}) \/ SentOn(id, {"RST_STREAM", "RST_STREAM_FRAME"})

\* the states one listed transition leads to from state s of stream id, given
\* the frames of the last call; the last line grants the closure by an
\* RST_STREAM the engine sends (a stream error or a reset) from any state
ListedStep(s, id) ==
    {t \in StreamState :
        \/ s = "IDLE" /\ t = "OPEN" /\ (RecvOn(id, {"HEADERS"}) \/ SentOn(id, {"HEADERS"}))
        \/ s = "IDLE" /\ t = "RESERVED_LOCAL" /\ SentPromiseOf(id)
        \/ s = "IDLE" /\ t = "RESERVED_REMOTE" /\ RecvPromiseOf(id)
        \/ s = "RESERVED_LOCAL" /\ t = "HALF_CLOSED_REMOTE" /\ SentOn(id, {"HEADERS"})
        \/ s = "RESERVED_REMOTE" /\ t = "HALF_CLOSED_LOCAL" /\ RecvOn(id, {"HEADERS"})
        \/ s = "OPEN" /\ t = "HALF_CLOSED_LOCAL" /\ SentEndStreamOn(id)
        \/ s = "OPEN" /\ t = "HALF_CLOSED_REMOTE" /\ RecvEndStreamOn(id)
        \/ s = "HALF_CLOSED_LOCAL" /\ t = "CLOSED" /\ RecvEndStreamOn(id)
        \/ s = "HALF_CLOSED_REMOTE" /\ t = "CLOSED" /\ SentEndStreamOn(id)
        \/ s \notin {"IDLE", "CLOSED"} /\ t = "CLOSED" /\ RstOn(id)
        \/ t = "CLOSED" /\ SentOn(id, {"RST_STREAM", "RST_STREAM_FRAME"})}

ListedSteps(S, id) == S \cup UNION {ListedStep(s, id) : s \in S}

\* C4: every change of a stream's state made by a call is a listed transition
\* of the stream state machine for the frames the call received or sent on
\* that stream, or a sequence of such transitions.
C4_OnlyListedTransitions ==
    \A id \in StreamIds :
        StateAfter(id) \in ListedSteps(ListedSteps(ListedSteps({StateBefore(id)}, id), id), id)


\* the connection-level violations the last call acted on (it invoked
\* on_send_goaway_)
ConnectionViolations ==
    {last.viol[i].code : i \in {j \in 1..Len(last.viol) : last.viol[j].scope = "connection"}}

\* C5: whenever process_incoming_data detects a connection-level violation it
\* emits GOAWAY with last_processed_stream_id_ and the error code, and
\* going_away_ is true afterwards.
C5_ConnectionErrorGoesAway ==
    (last.op = "process_incoming_data" /\ ConnectionViolations # {})
        => /\ \A code \in ConnectionViolations :
                  EmittedWith("GOAWAY", last_processed_stream_id_, code)
           /\ going_away_


\* C6: after a connection error has been raised (a GOAWAY emitted for a
\* detected violation), a later process_incoming_data delivers no frame to the
\* frame callback and changes no stream state, window or setting.
C6_NothingProcessedAfterConnectionError ==
    (last.op = "process_incoming_data" /\ last.pre.connError)
        => /\ delivered = <<>>
           /\ streams_ = last.pre.streams_
           /\ local_settings_ = last.pre.local_settings_
           /\ remote_settings_ = last.pre.remote_settings_
           /\ local_connection_window_size_ = last.pre.local_connection_window_size_
           /\ remote_connection_window_size_ = last.pre.remote_connection_window_size_


\* the streams on which the last call met a stream-level error: those the
\* engine raised one for (it invoked on_send_rst_stream_), and those for which
\* the received frame is a stream-level error by the error table: a
\* WINDOW_UPDATE with increment 0, or one that overflows the send window of an
\* OPEN or HALF_CLOSED_REMOTE stream
StreamErrorStreams ==
    {last.viol[i].sid : i \in {j \in 1..Len(last.viol) : last.viol[j].scope = "stream"}}
    \cup {id \in StreamIds :
            /\ Received
            /\ last.frame.type = "WINDOW_UPDATE"
            /\ last.frame.sid = id
            /\ \/ last.frame.n = 0
               \/ /\ id \in DOMAIN last.pre.streams_
                  /\ last.pre.streams_[id].state_ \in {"OPEN", "HALF_CLOSED_REMOTE"}
                  /\ WindowWouldOverflow(last.pre.streams_[id].remote_window_size_,
                                         last.frame.n)}

\* the last call left stream id as it was (the erasure of a stream that was
\* already CLOSED is no change)
Untouched(id) ==
    \/ /\ id \in DOMAIN last.pre.streams_
       /\ last.pre.streams_[id].state_ = "CLOSED"
       /\ id \notin DOMAIN streams_
    \/ /\ id \in DOMAIN streams_ <=> id \in DOMAIN last.pre.streams_
       /\ id \in DOMAIN streams_ => streams_[id] = last.pre.streams_[id]

\* C7: a stream-level error on stream S makes the engine send RST_STREAM for S
\* and close S only: every other stream keeps its state and windows, no GOAWAY
\* goes out and going_away_ does not change.
C7_StreamErrorClosesOnlyThatStream ==
    \A id \in StreamErrorStreams :
        /\ SentOn(id, {"RST_STREAM"})
        /\ id \notin DOMAIN streams_
        /\ \A other \in StreamIds \ {id} : Untouched(other)
        /\ ~Emitted("GOAWAY")
        /\ going_away_ = last.pre.going_away_


DeliveredInitiator(type, sid) ==
    {i \in 1..Len(delivered) : delivered[i].type = type /\ delivered[i].sid = sid}

\* the received frame opens a header block that CONTINUATION frames complete
OpensSplitBlock ==
    Received /\ last.frame.type \in {"HEADERS", "PUSH_PROMISE"} /\ ~last.frame.eh

\* the received frame is the CONTINUATION with END_HEADERS of the pending
\* block, and the block decodes
ClosesSplitBlock ==
    /\ Received
    /\ AwaitingContinuation
    /\ ContinuationOfPendingBlock
    /\ last.frame.eh
    /\ ~HpackDecodeFails(last.pre.header_block_buffer_ \o last.frame.frag)

\* C8: the frame that opens a header block completed by CONTINUATION frames is
\* delivered to the frame callback once: not when it arrives, but when the
\* CONTINUATION with END_HEADERS arrives, and then with the decoded headers of
\* the whole block.
C8_InitiatorDeliveredOnceComplete ==
    /\ OpensSplitBlock
           => DeliveredInitiator(last.frame.type, last.frame.sid) = {}
    /\ ClosesSplitBlock
           => \E i \in DeliveredInitiator(last.pre.pending_header_initiator_frame_.type,
                                          last.frame.sid) :
                  /\ delivered[i].headers =
                         HpackDecode(last.pre.header_block_buffer_ \o last.frame.frag)
                  /\ DeliveredInitiator(last.pre.pending_header_initiator_frame_.type,
                                        last.frame.sid) = {i}


\* the streams the engine accepted from the peer in the last call: the ids a
\* received frame added to streams_ and left open or reserved, those the
\* engine itself opened earlier left out
PeerOpened ==
    IF last.op = "process_incoming_data"
    THEN {id \in last.created \ last.pre.sendCreated :
            id \in DOMAIN streams_ /\ streams_[id].state_ \notin {"IDLE", "CLOSED"}}
    ELSE {}

\* C9: a stream the engine newly accepts from the peer has an id larger than
\* every id it accepted from the peer before.
C9_PeerStreamIdsIncrease ==
    \A id \in PeerOpened :
        \A seen \in last.pre.recvCreated \ last.pre.sendCreated : id > seen


\* the last call received and applied a SETTINGS frame whose one entry gives
\* INITIAL_WINDOW_SIZE a valid value
InitialWindowChanged ==
    /\ Received
    /\ last.error = "OK"
    /\ last.frame.type = "SETTINGS"
    /\ ~last.frame.ack
    /\ Len(last.frame.settings) = 1
    /\ last.frame.settings[1].id = SETTINGS_INITIAL_WINDOW_SIZE
    /\ last.frame.settings[1].hi = 0

WindowDelta ==
    last.frame.settings[1].lo - last.pre.remote_settings_.initial_window_size

ActiveBefore ==
    {id \in DOMAIN last.pre.streams_ :
        last.pre.streams_[id].state_ \notin {"IDLE", "CLOSED"}}

FlowControlErrorRaised(id) ==
    \/ EmittedWith("RST_STREAM", id, "FLOW_CONTROL_ERROR")
    \/ GoAwayEmitted("FLOW_CONTROL_ERROR")

\* C10: when a received SETTINGS changes INITIAL_WINDOW_SIZE by delta, the send
\* window of every stream that is neither IDLE nor CLOSED changes by exactly
\* delta, and a stream whose send window would exceed 2^31-1 gets a
\* flow-control error instead.
C10_InitialWindowDeltaApplied ==
    InitialWindowChanged =>
        \A id \in ActiveBefore :
            IF /\ WindowDelta > 0
               /\ last.pre.streams_[id].remote_window_size_
                      > MAX_ALLOWED_WINDOW_SIZE - WindowDelta
            THEN FlowControlErrorRaised(id)
            ELSE /\ id \in DOMAIN streams_
                 /\ streams_[id].remote_window_size_
                        = last.pre.streams_[id].remote_window_size_ + WindowDelta


\* the DATA frames the last call passed to on_send_bytes_ are the segments
\* send_data built, in order
SegmentsEmitted ==
    /\ Len(out) = Len(last.segments)
    /\ \A i \in 1..Len(out) :
           /\ out[i].kind = "DATA"
           /\ out[i].sid = last.segments[i].sid
           /\ out[i].n = last.segments[i].n
           /\ out[i].es = last.segments[i].es

\* C11: every DATA frame emitted by send_data carries at most
\* min(stream send window, connection send window, remote max_frame_size)
\* octets, each taken at the moment the frame is emitted.
C11_SegmentWithinLimits ==
    last.op = "send_data" =>
        /\ SegmentsEmitted
        /\ \A i \in 1..Len(last.segments) :
               /\ last.segments[i].n <= last.segments[i].stream_window
               /\ last.segments[i].n <= last.segments[i].conn_window
               /\ last.segments[i].n <= last.segments[i].max_frame_size

\* a send_data call cut into several frames, one cut by the frame-size limit
\* and a later one by the stream window
C11_SegmentCutByWindow ==
    /\ last.op = "send_data"
    /\ Len(last.segments) > 1
    /\ \E i, j \in 1..Len(last.segments) :
           /\ i < j
           /\ last.segments[i].n = last.segments[i].max_frame_size
           /\ last.segments[j].n = last.segments[j].stream_window
           /\ last.segments[j].n > 0
           /\ last.segments[j].n < last.segments[j].max_frame_size


\* C12: when send_data is called with end_stream and the payload is cut into
\* several DATA frames, END_STREAM is on the frame that carries the last
\* octet of the payload and on no earlier frame (and on none without
\* end_stream).
C12_EndStreamOnlyOnFinalSegment ==
    last.op = "send_data" =>
        /\ SegmentsEmitted
        /\ \A i \in 1..Len(last.segments) :
               last.segments[i].es <=>
                   (last.es /\ last.segments[i].end_offset = last.n /\ i = Len(last.segments))

\* a payload sent with end_stream in more than one frame, the last one
\* flagged; the payload was sent whole
C12_SplitSendEndsStream ==
    /\ last.op = "send_data"
    /\ last.es
    /\ Len(last.segments) > 1
    /\ last.segments[Len(last.segments)].es
    /\ last.segments[Len(last.segments)].end_offset = last.n
    /\ ~last.segments[1].es


\* the last call was given a DATA frame that the engine took without raising
\* anything: the parser returned OK, the handler recognised no violation
AcceptedData ==
    /\ Received
    /\ last.frame.type = "DATA"
    /\ last.error = "OK"
    /\ last.viol = <<>>
    /\ InRange(delivered, last.frame)

\* C13: on every accepted inbound DATA frame the stream receive window and
\* the connection receive window are both decremented by the length of the
\* frame's payload, padding included.
C13_ReceiveWindowsChargedForPayload ==
    AcceptedData =>
        /\ local_connection_window_size_
               = last.pre.local_connection_window_size_ - last.frame.length
        /\ last.frame.sid \in DOMAIN streams_ =>
               streams_[last.frame.sid].local_window_size_
                   = last.pre.streams_[last.frame.sid].local_window_size_
                         - last.frame.length


\* the streams the last call created and left in streams_, not closed; the
\* call handled one frame or was a send call, so no setting changed since
\* the stream was constructed
NewlyCreated ==
    IF last.op = "none" \/ (last.op = "process_incoming_data" /\ ~Received)
    THEN {}
    ELSE {id \in last.created \cap DOMAIN streams_ : streams_[id].state_ # "CLOSED"}

\* C14: a newly created stream's receive window starts at
\* local_settings.initial_window_size and its send window at the peer's
\* INITIAL_WINDOW_SIZE (remote_settings.initial_window_size).
C14_NewStreamWindows ==
    \A id \in NewlyCreated :
        /\ streams_[id].local_window_size_ = local_settings_.initial_window_size
        /\ streams_[id].remote_window_size_ = remote_settings_.initial_window_size


\* the last call was send_window_update_action for the connection and
\* returned true: it sent WINDOW_UPDATE(0, last.n) and raised the connection
\* receive window by last.n
GrantedConnectionCredit ==
    /\ last.op = "send_window_update_action"
    /\ last.sid = 0
    /\ last.result

\* C15: every flow-control window of the engine, stream and connection, send
\* and receive, is at most 2^31-1 at all times; in particular the receive
\* window a send_window_update_action call arrives at (the window before
\* the call plus the increment) is at most 2^31-1.
C15_WindowsWithinBound ==
    /\ local_connection_window_size_ <= MAX_ALLOWED_WINDOW_SIZE
    /\ remote_connection_window_size_ <= MAX_ALLOWED_WINDOW_SIZE
    /\ \A id \in DOMAIN streams_ :
           /\ streams_[id].local_window_size_ <= MAX_ALLOWED_WINDOW_SIZE
           /\ streams_[id].remote_window_size_ <= MAX_ALLOWED_WINDOW_SIZE
    /\ GrantedConnectionCredit =>
           last.pre.local_connection_window_size_ <= MAX_ALLOWED_WINDOW_SIZE - last.n


\* the last call was given a WINDOW_UPDATE for a stream, with an increment
\* the parser lets through
StreamWindowUpdate ==
    /\ Received
    /\ last.frame.type = "WINDOW_UPDATE"
    /\ last.frame.sid # 0
    /\ last.frame.n # 0

\* C16: a WINDOW_UPDATE received for a non-zero stream is permitted only when
\* the stream is OPEN or HALF_CLOSED_REMOTE; in any other state it is a
\* connection-level protocol error (GOAWAY with PROTOCOL_ERROR, the window
\* of the stream untouched).
C16_WindowUpdateOnlyWhenOpen ==
    StreamWindowUpdate =>
        IF StateBefore(last.frame.sid) \in {"OPEN", "HALF_CLOSED_REMOTE"}
        THEN ~GoAwayEmitted("PROTOCOL_ERROR")
        ELSE /\ GoAwayEmitted("PROTOCOL_ERROR")
             /\ last.frame.sid \in DOMAIN streams_ \cap DOMAIN last.pre.streams_ =>
                    streams_[last.frame.sid].remote_window_size_
                        = last.pre.streams_[last.frame.sid].remote_window_size_


\* C17: a received WINDOW_UPDATE with increment 0 on a non-zero stream is a
\* stream-level protocol error: RST_STREAM(stream, PROTOCOL_ERROR) is emitted
\* and no connection error is raised.
C17_ZeroIncrementIsStreamError ==
    (/\ Received
     /\ last.frame.type = "WINDOW_UPDATE"
     /\ last.frame.sid # 0
     /\ last.frame.n = 0)
        => /\ EmittedWith("RST_STREAM", last.frame.sid, "PROTOCOL_ERROR")
           /\ ~Emitted("GOAWAY")


\* the last call was given a SETTINGS frame without ACK
ReceivedSettings ==
    /\ Received
    /\ last.frame.type = "SETTINGS"
    /\ ~last.frame.ack

\* the connection error the spec assigns to a SETTINGS entry, "NO_ERROR" for
\* an entry whose value is in range
SettingError(setting) ==
    CASE setting.id = SETTINGS_ENABLE_PUSH /\ U32Above(setting, 1) -> "PROTOCOL_ERROR"
      [] setting.id = SETTINGS_INITIAL_WINDOW_SIZE
            /\ U32Above(setting, MAX_ALLOWED_WINDOW_SIZE) -> "FLOW_CONTROL_ERROR"
      [] setting.id = SETTINGS_MAX_FRAME_SIZE
            /\ (U32Below(setting, DEFAULT_MAX_FRAME_SIZE)
                \/ U32Above(setting, MAX_ALLOWED_FRAME_SIZE)) -> "PROTOCOL_ERROR"
      [] OTHER -> "NO_ERROR"

\* C18: applying a received non-ACK SETTINGS entry with an invalid value
\* raises a connection error: ENABLE_PUSH outside {0,1} a protocol error,
\* INITIAL_WINDOW_SIZE above 2^31-1 a flow-control error, MAX_FRAME_SIZE
\* outside 16384..2^24-1 a protocol error.
C18_InvalidSettingIsConnectionError ==
    ReceivedSettings =>
        \A i \in 1..Len(last.frame.settings) :
            SettingError(last.frame.settings[i]) # "NO_ERROR"
                => GoAwayEmitted(SettingError(last.frame.settings[i]))


\* the number of SETTINGS ACK frames the last call emitted
AcksEmitted == Cardinality({i \in 1..Len(out) : out[i].kind = "SETTINGS_ACK"})

\* the value remote_settings_ holds for a setting identifier the model keeps
RemoteSettingValue(id) ==
    CASE id = SETTINGS_HEADER_TABLE_SIZE -> remote_settings_.header_table_size
      [] id = SETTINGS_INITIAL_WINDOW_SIZE -> remote_settings_.initial_window_size
      [] id = SETTINGS_MAX_FRAME_SIZE -> remote_settings_.max_frame_size
      [] OTHER -> 0

\* every in-range entry of the received SETTINGS frame is in remote_settings_
\* (frames carry one entry per identifier)
EntriesApplied ==
    \A i \in 1..Len(last.frame.settings) :
        LET setting == last.frame.settings[i] IN
        (/\ SettingError(setting) = "NO_ERROR"
         /\ setting.id \in {SETTINGS_HEADER_TABLE_SIZE, SETTINGS_INITIAL_WINDOW_SIZE,
                            SETTINGS_MAX_FRAME_SIZE})
            => RemoteSettingValue(setting.id) = setting.lo

C20_UnknownFrameIgnored ==
    (Received /\ last.frame.type = "UNKNOWN") =>
        /\ delivered = <<last.frame>>
        /\ last.error = "OK"
        /\ out = <<>>
        /\ buffer_ = <<>>
        /\ streams_ = last.pre.streams_
        /\ going_away_ = last.pre.going_away_
        /\ local_settings_ = last.pre.local_settings_
        /\ remote_settings_ = last.pre.remote_settings_
        /\ local_connection_window_size_ = last.pre.local_connection_window_size_
        /\ remote_connection_window_size_ = last.pre.remote_connection_window_size_

(* ------------------------ claims C21 .. C30 ---------------------------- *)
\* the last call dispatched one complete HEADERS frame, without END_STREAM,
\* to handle_headers_frame on stream id, no header block being open
HeadersDeliveredOn(id) ==
    /\ Received /\ ~AwaitingContinuation
    /\ last.frame.type = "HEADERS" /\ last.frame.sid = id
    /\ last.frame.eh /\ ~last.frame.es
    /\ last.error = "OK"
    /\ Len(delivered) = 1

\* C21: receiving HEADERS on a stream that is in RESERVED_REMOTE moves that
\* stream to HALF_CLOSED_LOCAL.
C21_ReservedRemoteHeadersHalfCloseLocal ==
    \A id \in StreamIds :
        (HeadersDeliveredOn(id) /\ id \in DOMAIN last.pre.streams_
            /\ last.pre.streams_[id].state_ = "RESERVED_REMOTE")
        => StateAfter(id) = "HALF_CLOSED_LOCAL"

\* C22: sending HEADERS on a stream that is in RESERVED_LOCAL (a stream the
\* engine promised with send_push_promise) moves that stream to
\* HALF_CLOSED_REMOTE.
C22_ReservedLocalHeadersHalfCloseRemote ==
    (/\ last.op = "send_headers" /\ last.result /\ ~last.es
     /\ last.sid \in DOMAIN last.pre.streams_
     /\ last.pre.streams_[last.sid].state_ = "RESERVED_LOCAL"
     /\ last.sid \in last.pre.sendCreated)
    => StateAfter(last.sid) = "HALF_CLOSED_REMOTE"

\* the last call parsed one frame of the given type that has END_HEADERS
\* cleared, no header block being open before it, and the engine found no
\* fault with the frame
BeginsHeaderBlock(type) ==
    /\ Received /\ ~AwaitingContinuation
    /\ last.frame.type = type /\ ~last.frame.eh
    /\ last.error = "OK" /\ last.viol = <<>>

\* C23: receiving a PUSH_PROMISE with END_HEADERS cleared begins a
\* header-block sequence exactly as HEADERS does: its fragment is appended to
\* the connection-scoped header-block buffer and the connection awaits
\* CONTINUATION on that stream.
C23_PushPromiseBeginsHeaderBlock ==
    BeginsHeaderBlock("PUSH_PROMISE")
    => /\ header_block_buffer_ = last.frame.frag
       /\ expected_continuation_stream_id_ = last.frame.sid

\* the streams the engine itself initiated in the last call: the ids a send
\* operation (send_headers, send_push_promise) added to streams_
EngineOpened == IF SendCall THEN last.created ELSE {}

\* the parity of the ids the engine's role initiates: odd for a client, even
\* for a server
OwnParity(id) == IF is_server_ THEN id % 2 = 0 ELSE id % 2 = 1

\* C24: stream ids that the engine itself initiates are of its role's parity
\* (odd for a client, even for a server's promises) and strictly increasing:
\* each is greater than every id the engine initiated before.
C24_OwnStreamIdsIncrease ==
    \A id \in EngineOpened :
        /\ OwnParity(id)
        /\ \A seen \in last.pre.sendCreated : id > seen

\* C25: on a client connection, send_headers called with the stream id just
\* returned by get_next_available_stream_id succeeds: it returns true, emits
\* a HEADERS frame on that id, and the stream leaves IDLE.
C25_SendHeadersOnAllocatedId ==
    (/\ ~is_server_
     /\ last.op = "send_headers"
     /\ last.pre.allocated # 0 /\ last.sid = last.pre.allocated)
    => /\ last.result
       /\ SentOn(last.sid, {"HEADERS"})
       /\ StateAfter(last.sid) # "IDLE"

\* the name and value of each header of a list, in order
NameValues(headers) ==
    [i \in 1..Len(headers) |-> <<headers[i].name, headers[i].value>>]

\* the encoder and the decoder are fresh or have only been used together, the
\* decoder decoding each block of the encoder, both with capacity 4096
InSync == hpack_last.call.op = "encode_decode" /\ hpack_last.pre.paired

\* C26: for every sequence of header lists encoded in order by a fresh encoder
\* and decoded in order by a fresh decoder, both with capacity 4096, each
\* decoded list equals the list that was encoded, and after each block the two
\* dynamic tables hold the same entries and the same used size.
C26_StatefulRoundTrip ==
    InSync
    => /\ hpack_last.call.error = "OK"
       /\ NameValues(hpack_last.call.decoded) = NameValues(hpack_last.call.headers)
       /\ decoder.dynamic_table_ = encoder.dynamic_table_
       /\ decoder.current_dynamic_table_size_ = encoder.current_dynamic_table_size_

RECURSIVE SumOfSizes(_)
SumOfSizes(table) ==
    IF table = <<>> THEN 0 ELSE Head(table).size + SumOfSizes(Tail(table))

\* a table of used size used and capacity capacity, inserted being every
\* entry ever put in it, newest first: the table holds the newest of them in
\* that order (the ones missing are the oldest) and is within its capacity
TableInOrder(table, used, capacity, inserted) ==
    /\ used = SumOfSizes(table)
    /\ used <= capacity
    /\ Len(table) <= Len(inserted)
    /\ table = SubSeq(inserted, 1, Len(table))

\* C27: after any sequence of insertions and capacity changes on a dynamic
\* table, the encoder's or the decoder's, its used size is at most its
\* capacity and its entries are in newest-first order, the oldest entries
\* having been evicted first.
C27_DynamicTableWithinCapacity ==
    /\ TableInOrder(encoder.dynamic_table_, encoder.current_dynamic_table_size_,
                    encoder.own_max_dynamic_table_size_, encoder.inserted)
    /\ TableInOrder(decoder.dynamic_table_, decoder.current_dynamic_table_size_,
                    decoder.max_dynamic_table_size_, decoder.inserted)

\* a capacity change has evicted the older of two entries of the decoder's
\* table and kept the newer
C27_CapacityChangeEvictedOldest ==
    /\ hpack_last.call.op = "set_max_dynamic_table_size"
    /\ Len(hpack_last.pre.decoder.dynamic_table_) = 2
    /\ decoder.dynamic_table_ = <<hpack_last.pre.decoder.dynamic_table_[1]>>
    /\ decoder.current_dynamic_table_size_ <= decoder.max_dynamic_table_size_

\* an entry of the table has the name and the value of the header
ExactlyIn(table, header) ==
    {j \in 1..Len(table) :
        table[j].name = header.name /\ table[j].value = header.value}

\* rep is the Indexed representation of an entry that is the header
IndexedExactly(rep) ==
    /\ rep.kind = "indexed"
    /\ rep.index - Len(STATIC_TABLE) \in ExactlyIn(rep.table, rep.header)

\* C28: for every input header whose name and value exactly match some entry
\* currently in the encoder's dynamic table, and no static-table entry, the
\* encoder emits an Indexed representation referring to that entry and
\* inserts nothing into its table (only a literal with incremental indexing
\* inserts).
C28_ExactDynamicMatchIndexed ==
    \A i \in 1..Len(hpack_last.call.reps) :
        (/\ ExactlyIn(hpack_last.call.reps[i].table, hpack_last.call.reps[i].header) # {}
         /\ ~find_in_static_table(hpack_last.call.reps[i].header)[2])
        => IndexedExactly(hpack_last.call.reps[i])

\* the last call decoded a block that is one Dynamic Table Size Update of size
SizeUpdateDecoded(size) ==
    hpack_last.call.op = "decode" /\ hpack_last.call.data = SizeUpdateBlock(size)

\* C29: a Dynamic Table Size Update decoded in a header block is accepted only
\* if its value does not exceed the maximum currently signalled for that
\* decoder: a larger value is a compression error, and a value at or below
\* that maximum sets the table capacity and applies eviction.
C29_SizeUpdateWithinSignalled ==
    \A size \in SizeUpdates :
        SizeUpdateDecoded(size)
        => IF size > hpack_last.pre.signalled
           THEN /\ hpack_last.call.error = "COMPRESSION_ERROR"
                /\ decoder = hpack_last.pre.decoder
           ELSE /\ hpack_last.call.error = "OK"
                /\ decoder.max_dynamic_table_size_ = size
                /\ decoder.current_dynamic_table_size_ <= size

\* the width of the exact results
WideLimbs == UInt64Limbs + 2

\* the integer that octets encode after a full prefix, computed without loss
\* in WideLimbs limbs: value is the sum so far and m the shift of the next
\* octet.  The result is [value, shift, complete]: shift is the largest shift
\* applied, complete tells that a last octet (one below 128) was found
RECURSIVE ExactIntegerFrom(_, _, _)
ExactIntegerFrom(data, value, m) ==
    IF data = <<>> THEN [value |-> value, shift |-> m - 7, complete |-> FALSE]
    ELSE IF Head(data) >= 128
    THEN ExactIntegerFrom(Tail(data),
                          AddLimbs(value, ShiftLeft(Head(data) % 128, m, WideLimbs)),
                          m + 7)
    ELSE [value |-> AddLimbs(value, ShiftLeft(Head(data) % 128, m, WideLimbs)),
          shift |-> m, complete |-> TRUE]

ExactInteger(data, prefix_bits) ==
    IF Head(data) % (2 ^ prefix_bits) < (2 ^ prefix_bits) - 1
    THEN [value |-> SubSeq(LimbsOf(Head(data) % (2 ^ prefix_bits), WideLimbs), 1, WideLimbs),
          shift |-> 0, complete |-> TRUE]
    ELSE ExactIntegerFrom(Tail(data),
                          SubSeq(LimbsOf((2 ^ prefix_bits) - 1, WideLimbs), 1, WideLimbs), 0)

\* a number of WideLimbs limbs is below 2^64
FitsUInt64(wide) == \A i \in (UInt64Limbs + 1)..Len(wide) : wide[i] = 0

\* what decode_integer was given and what it returned
IntegerDecoded(exact) ==
    /\ ((exact.shift > 63 \/ (exact.complete /\ ~FitsUInt64(exact.value)))
            => hpack_last.call.error = "INTEGER_OVERFLOW")
    /\ (hpack_last.call.error = "OK"
            => /\ exact.complete
               /\ FitsUInt64(exact.value)
               /\ hpack_last.call.value = SubSeq(exact.value, 1, UInt64Limbs))

\* C30: decode_integer returns integer_overflow whenever the accumulated shift
\* exceeds 63 bits or the encoded value does not fit in a 64-bit unsigned
\* integer; its shift counter is bounded, so it never returns a wrapped value
\* and never accepts an unbounded run of continuation bytes.
C30_DecodeIntegerNoWrap ==
    hpack_last.call.op = "decode_integer"
    => IntegerDecoded(ExactInteger(hpack_last.call.data, hpack_last.call.prefix_bits))

(* ------------------------ claims C31 .. C40 ---------------------------- *)
\* the last call fed one frame whose header declares more octets than
\* remote_settings.max_frame_size allowed when the call began, and that frame
\* is the one the parser read
OversizeFrameReceived ==
    /\ Received /\ last.op = "process_incoming_data"
    /\ last.frame.length > last.pre.remote_settings_.max_frame_size

\* C32: if a received frame header declares a length greater than
\* remote_settings.max_frame_size, the parser yields
\* frame_size_limit_exceeded, delivers no frame for it, and halts: no later
\* call delivers any frame.
C32_FrameSizeGateHalts ==
    /\ OversizeFrameReceived
        => (last.error = "FRAME_SIZE_LIMIT_EXCEEDED" /\ delivered = <<>>)
    /\ (last.op = "process_incoming_data" /\ last.pre.sizeExceeded)
        => delivered = <<>>

\* a call after the size gate fired was fed a frame that is delivered when
\* the parser reads it (PING), and delivered nothing
C32_FedAfterSizeGate ==
    /\ last.op = "process_incoming_data" /\ last.pre.sizeExceeded
    /\ last.frame.type = "PING"
    /\ last.error = "FRAME_SIZE_LIMIT_EXCEEDED"
    /\ delivered = <<>>

\* the frame the last call fed, read by the parser, has a stream id that its
\* type does not allow
StreamIdRuleViolated ==
    /\ Received /\ last.op = "process_incoming_data"
    /\ \/ /\ last.frame.type \in {"DATA", "HEADERS", "PRIORITY", "RST_STREAM",
                                  "PUSH_PROMISE", "CONTINUATION"}
          /\ last.frame.sid = 0
       \/ /\ last.frame.type \in {"SETTINGS", "PING", "GOAWAY"}
          /\ last.frame.sid # 0

\* C33: a received frame whose stream id violates the rule of its type (DATA,
\* HEADERS, PRIORITY, RST_STREAM, PUSH_PROMISE or CONTINUATION on stream 0;
\* SETTINGS, PING or GOAWAY on a non-zero stream) raises a connection-level
\* PROTOCOL_ERROR.
C33_StreamIdRuleEnforced ==
    StreamIdRuleViolated => GoAwayEmitted("PROTOCOL_ERROR")

\* C38: process_incoming_data returns normally for every input byte
\* sequence: every protocol violation by the peer, including a frame on
\* stream 0 handled by a stream handler and a newly opened stream id not
\* greater than earlier ones, is reported through the returned error and the
\* GOAWAY path and never by an exception escaping to the caller.
C38_NoExceptionEscapes ==
    last.op = "process_incoming_data" => last.error # "EXCEPTION"

\* the last call was one of the four send operations and returned false
SendReturnedFalse ==
    /\ last.op \in {"send_data", "send_headers", "send_push_promise",
                    "send_window_update_action"}
    /\ last.error = "OK" /\ ~last.result

\* C37: whenever a send operation (send_data, send_headers,
\* send_push_promise, send_window_update_action) returns false, it has
\* emitted no bytes through on_send_bytes and has left stream states, the
\* stream map, the next-stream-id counters and all flow-control windows
\* unchanged.
C37_RefusedSendChangesNothing ==
    SendReturnedFalse
    => /\ out = <<>>
       /\ streams_ = last.pre.streams_
       /\ next_client_stream_id_ = last.pre.next_client_stream_id_
       /\ last_processed_stream_id_ = last.pre.last_processed_stream_id_
       /\ local_connection_window_size_ = last.pre.local_connection_window_size_
       /\ remote_connection_window_size_ = last.pre.remote_connection_window_size_

\* the encoder's endpoint announced HEADER_TABLE_SIZE, the peer applied it,
\* and the encoder's endpoint then sent a header block to the peer
SentAfterAnnouncement ==
    /\ hpack_last.call.op = "encode_decode"
    /\ hpack_last.pre.peers /\ hpack_last.pre.announced

\* C39: between two endpoints running this engine, after one endpoint
\* announces a new HEADER_TABLE_SIZE with send_settings and the peer applies
\* it, every header block the announcing endpoint subsequently sends decodes
\* at the peer to the header list that was encoded, and the sender's encoder
\* table and the receiver's decoder table are identical.
C39_TablesAgreeAfterAnnouncement ==
    SentAfterAnnouncement
    => /\ hpack_last.call.error = "OK"
       /\ NameValues(hpack_last.call.decoded) = NameValues(hpack_last.call.headers)
       /\ decoder.dynamic_table_ = encoder.dynamic_table_

\* C40: the consumed-byte count returned by a parse call never exceeds the
\* length of the slice passed to that call, whatever earlier calls left in
\* the internal buffer and whether or not the call returns an error.
C40_ConsumedWithinSlice ==
    wire_last.op = "parse" => wire_last.consumed <= wire_last.size

\* C36: each frame in the received byte stream is delivered to the frame
\* callback at most once over any sequence of parse calls, including calls
\* made after an earlier call returned an error: no two deliveries are of the
\* frame at the same place in the stream.
C36_DeliveredAtMostOnce ==
    \A i, j \in 1..Len(wire.deliveries) :
        i # j => wire.deliveries[i].at # wire.deliveries[j].at

\* C31: for any byte stream of frames and any way of splitting it into
\* successive slices, feeding the slices one by one delivers exactly the same
\* sequence of frames as feeding the whole stream in one call to a parser in
\* its initial state, and no frame is delivered before all of its header and
\* payload bytes have been fed.
C31_SlicesDeliverAsWhole ==
    /\ wire.received = Http2Parser_parse(Http2Parser, wire.fed).p.delivered
    /\ \A i \in 1..Len(wire.deliveries) :
           wire.deliveries[i].at + wire.deliveries[i].size <= Len(wire.fed)

\* every octet of the stream came from serializing a frame record, and the
\* whole stream has been parsed
RoundTripped == ~wire.raw /\ wire.written # <<>> /\ wire.stream = <<>>

\* C35: for every valid frame record F of every frame type, parsing the bytes
\* produced by serializing F yields a record equal to F, with the header
\* length re-derived from the payload (wire.written holds each F with that
\* length).
C35_ParseInvertsSerialize ==
    RoundTripped => wire.received = wire.written

\* the frames of the header block serialized last, as octets
HeaderBlockSerialized == wire_last.op = "serialize_header_block_with_continuation"

\* C34: in the frame sequence produced for one outbound header block (a
\* HEADERS or PUSH_PROMISE frame followed by zero or more CONTINUATION
\* frames, all on the same stream), END_HEADERS is set on the last frame and
\* on no other frame.
C34_EndHeadersOnLastFrameOnly ==
    HeaderBlockSerialized
    => \A i \in 1..Len(wire_last.sequence) :
           /\ HasFlag(read_frame_header(wire_last.sequence[i]).flags, END_HEADERS_FLAG)
                  <=> i = Len(wire_last.sequence)
           /\ read_frame_header(wire_last.sequence[i]).stream_id = 1
           /\ i > 1 => read_frame_header(wire_last.sequence[i]).type
                            = FrameType.CONTINUATION

\* a header block that took a first frame and two CONTINUATION frames
C34_BlockInThreeFrames ==
    HeaderBlockSerialized /\ Len(wire_last.sequence) = 3

====
